---- MODULE Spec2Model ----
(***************************************************************************)
(* Model of TxtScoreParser (src/txt_score_parser.py): the two-pass         *)
(* pipeline parse_content -> _first_pass_validation ->                     *)
(* _second_pass_generation that turns a text score into playback data.     *)
(*                                                                         *)
(* Text is a sequence of one-character strings.  Beat durations are        *)
(* counted in thousandths of a beat (1.0 beat = 1000), times in            *)
(* microseconds (1 s = 1000000); every duration the code can produce is a  *)
(* multiple of 0.125 beat, and the tempi of the input pool make            *)
(* 0.125 beat a whole number of microseconds, so the code's float          *)
(* arithmetic is exact rational arithmetic on these inputs.                *)
(***************************************************************************)
EXTENDS Integers, Sequences, FiniteSets, TLC

(***************************************************************************)
(* Small helpers over sequences.                                           *)
(***************************************************************************)
Abs(x) == IF x < 0 THEN -x ELSE x

Last(s) == s[Len(s)]

Front(s) == SubSeq(s, 1, Len(s) - 1)

Contains(s, c) == \E k \in 1..Len(s) : s[k] = c

(* str.find(c, from): first index >= from holding c, 0 when there is none *)
FindFrom(s, c, from) ==
    IF \E k \in from..Len(s) : s[k] = c
    THEN CHOOSE k \in from..Len(s) : s[k] = c /\ \A l \in from..(k - 1) : s[l] # c
    ELSE 0

(* str.rfind(c): last index holding c, 0 when there is none *)
RFind(s, c) ==
    IF Contains(s, c)
    THEN CHOOSE k \in 1..Len(s) : s[k] = c /\ \A l \in (k + 1)..Len(s) : s[l] # c
    ELSE 0

RECURSIVE CountChar(_, _)
CountChar(s, c) ==
    IF s = <<>> THEN 0
    ELSE (IF Head(s) = c THEN 1 ELSE 0) + CountChar(Tail(s), c)

(* str.replace(' ', '') *)
RECURSIVE RemoveSpaces(_)
RemoveSpaces(s) ==
    IF s = <<>> THEN <<>>
    ELSE IF Head(s) = " " THEN RemoveSpaces(Tail(s))
    ELSE <<Head(s)>> \o RemoveSpaces(Tail(s))

(* str.strip() for the blanks that occur in the modelled texts *)
RECURSIVE LStrip(_)
LStrip(s) == IF s # <<>> /\ Head(s) = " " THEN LStrip(Tail(s)) ELSE s

RECURSIVE RStrip(_)
RStrip(s) == IF s # <<>> /\ Last(s) = " " THEN RStrip(Front(s)) ELSE s

Strip(s) == RStrip(LStrip(s))

(* str.split(sep) *)
RECURSIVE SplitAcc(_, _, _, _)
SplitAcc(s, sep, cur, acc) ==
    IF s = <<>> THEN Append(acc, cur)
    ELSE IF Head(s) = sep THEN SplitAcc(Tail(s), sep, <<>>, Append(acc, cur))
    ELSE SplitAcc(Tail(s), sep, Append(cur, Head(s)), acc)

Split(s, sep) == SplitAcc(s, sep, <<>>, <<>>)

(***************************************************************************)
(* Character classes used by the tokenizer and the token grammars.         *)
(***************************************************************************)
AccidentalChars == {"#", "b"}

OctaveChars == {"+", "-"}

DigitChars == {"0", "1", "2", "3", "4", "5", "6", "7", "8", "9"}

DurationChars == {"_", "."}

ModifierChars == {"~", "*", "&", "@"}

SuffixChars == DurationChars \cup ModifierChars

DigitValue(c) ==
    CASE c = "0" -> 0 [] c = "1" -> 1 [] c = "2" -> 2 [] c = "3" -> 3
      [] c = "4" -> 4 [] c = "5" -> 5 [] c = "6" -> 6 [] c = "7" -> 7
      [] c = "8" -> 8 [] c = "9" -> 9

(***************************************************************************)
(* _tokenize_measure.  The result is [raised, tokens]: raised is TRUE when *)
(* the code leaves the function through `raise ValueError` (a bracket      *)
(* that is never closed).                                                  *)
(***************************************************************************)

(* the scanning loop `while j < len(measure) and count > 0` of a group *)
RECURSIVE ScanGroup(_, _, _, _, _, _)
ScanGroup(m, j, open, close, count, tok) ==
    IF j <= Len(m) /\ count > 0
    THEN ScanGroup(m, j + 1, open, close,
                   IF m[j] = open THEN count + 1
                   ELSE IF m[j] = close THEN count - 1 ELSE count,
                   Append(tok, m[j]))
    ELSE [j |-> j, count |-> count, tok |-> tok]

(* `while j < len(measure) and measure[j] in '_.~*&@'` *)
RECURSIVE ReadSuffix(_, _, _)
ReadSuffix(m, j, tok) ==
    IF j <= Len(m) /\ m[j] \in SuffixChars
    THEN ReadSuffix(m, j + 1, Append(tok, m[j]))
    ELSE [j |-> j, tok |-> tok]

(* `while i < len(measure) and char in cls`, with the inner break that     *)
(* leaves char unchanged when the measure ends                             *)
RECURSIVE ReadRun(_, _, _, _)
ReadRun(m, i, cls, tok) ==
    IF i <= Len(m) /\ m[i] \in cls
    THEN ReadRun(m, i + 1, cls, Append(tok, m[i]))
    ELSE [i |-> i, tok |-> tok]

CloserOf(open) == CASE open = "[" -> "]" [] open = "{" -> "}" [] open = "<" -> ">"

RECURSIVE TokenizeFrom(_, _, _)

(* one bracketed group starting at m[i], prefix already read (lines        *)
(* 319-397 and 411-460)                                                    *)
TokenizeGroup(m, i, prefix, tokens) ==
    LET g == ScanGroup(m, i + 1, m[i], CloserOf(m[i]), 1, Append(prefix, m[i]))
        s == ReadSuffix(m, g.j, g.tok)
    IN  IF g.count > 0
        THEN [raised |-> TRUE, tokens |-> tokens]
        ELSE TokenizeFrom(m, s.j, Append(tokens, s.tok))

(* the plain-note part from the octave markers on (lines 462-499); i is    *)
(* the position of `char`, tok the token read so far                       *)
TokenizePlain(m, i, tok, tokens) ==
    LET o == ReadRun(m, i, OctaveChars, tok)
        flush(t) == IF t # <<>> THEN Append(tokens, t) ELSE tokens
    IN  IF o.i <= Len(m) /\ m[o.i] \in DigitChars
        THEN LET t1 == Append(o.tok, m[o.i])
                 d  == ReadRun(m, o.i + 1, DurationChars, t1)
             IN  IF o.i + 1 > Len(m)
                 THEN [raised |-> FALSE, tokens |-> Append(tokens, t1)]
                 ELSE IF d.i <= Len(m) /\ m[d.i] \in ModifierChars
                 THEN TokenizeFrom(m, d.i + 1, Append(tokens, Append(d.tok, m[d.i])))
                 ELSE TokenizeFrom(m, d.i, Append(tokens, d.tok))
        ELSE TokenizeFrom(m, o.i + 1, flush(o.tok))

TokenizeFrom(m, i, tokens) ==
    IF i > Len(m) THEN [raised |-> FALSE, tokens |-> tokens]
    ELSE IF m[i] = " " THEN TokenizeFrom(m, i + 1, tokens)
    ELSE IF m[i] \in {"<", "{", "["} THEN TokenizeGroup(m, i, <<>>, tokens)
    ELSE IF m[i] \in AccidentalChars
    THEN IF i + 1 > Len(m)
         THEN [raised |-> FALSE, tokens |-> tokens]
         ELSE IF m[i + 1] \in {"[", "<"}
         THEN TokenizeGroup(m, i + 1, <<m[i]>>, tokens)
         ELSE TokenizePlain(m, i + 1, <<m[i]>>, tokens)
    ELSE TokenizePlain(m, i, <<>>, tokens)

tokenize_measure(measure) == TokenizeFrom(measure, 1, <<>>)

(***************************************************************************)
(* Syntax nodes (the dataclasses Note, Chord, Grace, Triplet) and the      *)
(* token grammars.  A parse yields [ok, node]; ok = FALSE is the code's    *)
(* `raise ValueError`.                                                     *)
(***************************************************************************)
NoNode == [kind |-> "none"]

ParseFail == [ok |-> FALSE, node |-> NoNode]

ParseOk(n) == [ok |-> TRUE, node |-> n]

Note(pitch, octave, accidental, duration, modifier, is_rest) ==
    [kind |-> "note", pitch |-> pitch, octave |-> octave, accidental |-> accidental,
     duration |-> duration, modifier |-> modifier, is_rest |-> is_rest]

Chord(notes, duration, modifier) ==
    [kind |-> "chord", notes |-> notes, duration |-> duration, modifier |-> modifier]

Grace(grace_notes, main_note, duration, modifier) ==
    [kind |-> "grace", grace_notes |-> grace_notes, main_note |-> main_note,
     duration |-> duration, modifier |-> modifier]

Triplet(notes, duration, modifier, accidental) ==
    [kind |-> "triplet", notes |-> notes, duration |-> duration, modifier |-> modifier,
     accidental |-> accidental]

(* _parse_single_note: the whole token must be an optional accidental, a   *)
(* run of octave markers, one digit 0-7, a run of duration characters and  *)
(* an optional modifier character                                          *)
parse_single_note(token) ==
    LET a   == IF token # <<>> /\ token[1] \in AccidentalChars THEN 1 ELSE 0
        o   == ReadRun(token, a + 1, OctaveChars, <<>>)
        p   == o.i
        d   == ReadRun(token, p + 1, DurationChars, <<>>)
        mod == IF d.i <= Len(token) /\ token[d.i] \in ModifierChars THEN 1 ELSE 0
    IN  IF p <= Len(token) /\ token[p] \in (DigitChars \ {"8", "9"})
           /\ d.i + mod = Len(token) + 1
        THEN ParseOk(Note(DigitValue(token[p]), o.tok,
                          IF a = 1 THEN token[1] ELSE "",
                          d.tok,
                          IF mod = 1 THEN token[d.i] ELSE "",
                          token[p] = "0"))
        ELSE ParseFail

(* the warnings _parse_single_note appends for a note it accepts *)
note_warnings(note) ==
    (IF note.octave \in {<<"+", "+">>, <<"+", "+", "+">>} \/ Len(note.octave) > 2
     THEN <<"octave_too_high">> ELSE <<>>)
    \o (IF note.octave = <<"+">> /\ note.pitch \in {6, 7}
        THEN <<"out_of_range_high">> ELSE <<>>)
    \o (IF note.octave = <<"-", "-">> /\ note.pitch \in {1, 2, 3, 4}
        THEN <<"out_of_range_low">> ELSE <<>>)

(* re.search for the first run of duration characters of the suffix *)
SuffixDuration(suffix) ==
    LET k == IF \E x \in 1..Len(suffix) : suffix[x] \in DurationChars
             THEN CHOOSE x \in 1..Len(suffix) :
                      /\ suffix[x] \in DurationChars
                      /\ \A y \in 1..(x - 1) : suffix[y] \notin DurationChars
             ELSE 0
    IN  IF k = 0 THEN <<>> ELSE ReadRun(suffix, k, DurationChars, <<>>).tok

(* re.search for the first modifier character of the suffix *)
SuffixModifier(suffix) ==
    IF \E x \in 1..Len(suffix) : suffix[x] \in ModifierChars
    THEN suffix[CHOOSE x \in 1..Len(suffix) :
                    /\ suffix[x] \in ModifierChars
                    /\ \A y \in 1..(x - 1) : suffix[y] \notin ModifierChars]
    ELSE ""

(* the loop of re.match calls that reads (octave markers)(digit) pairs     *)
(* from content[i:]; [ok, notes]: ok = FALSE when a match fails            *)
RECURSIVE ReadPairs(_, _, _, _, _)
ReadPairs(content, i, digits, accidental, notes) ==
    IF i > Len(content) THEN [ok |-> TRUE, notes |-> notes]
    ELSE LET o == ReadRun(content, i, OctaveChars, <<>>)
         IN  IF o.i <= Len(content) /\ content[o.i] \in digits
             THEN ReadPairs(content, o.i + 1, digits, accidental,
                            Append(notes, Note(DigitValue(content[o.i]), o.tok, accidental,
                                               <<>>, "", content[o.i] = "0")))
             ELSE [ok |-> FALSE, notes |-> notes]

PitchDigits == {"1", "2", "3", "4", "5", "6", "7"}

RestOrPitchDigits == PitchDigits \cup {"0"}

TokenAccidental(token) ==
    IF token # <<>> /\ token[1] \in AccidentalChars THEN token[1] ELSE ""

(* _parse_chord *)
parse_chord(token) ==
    LET acc   == TokenAccidental(token)
        start == IF acc = "" THEN 1 ELSE 2
        bs    == FindFrom(token, "[", start)
        be    == RFind(token, "]")
        suffix == SubSeq(token, be + 1, Len(token))
        content == RemoveSpaces(SubSeq(token, bs + 1, be - 1))
        r     == ReadPairs(content, 1, PitchDigits, acc, <<>>)
    IN  IF bs = 0 \/ be = 0 THEN ParseFail
        ELSE IF ~r.ok THEN ParseFail
        ELSE IF r.notes = <<>> THEN ParseFail
        ELSE ParseOk(Chord(r.notes, SuffixDuration(suffix), SuffixModifier(suffix)))

(* the `while i < len(triplet_content) and note_count < 3` loop of         *)
(* _parse_triplet (lines 662-720); [ok, notes, i, count]                   *)
RECURSIVE TripletElements(_, _, _, _)
TripletElements(content, i, accidental, notes) ==
    IF ~(i <= Len(content) /\ Len(notes) < 3)
    THEN [ok |-> TRUE, notes |-> notes, i |-> i]
    ELSE IF content[i] = "["
    THEN LET be == FindFrom(content, "]", i)
             r  == ReadPairs(SubSeq(content, i + 1, be - 1), 1, RestOrPitchDigits,
                             accidental, <<>>)
         IN  IF be = 0 THEN [ok |-> FALSE, notes |-> notes, i |-> i]
             ELSE IF ~r.ok THEN [ok |-> FALSE, notes |-> notes, i |-> i]
             ELSE TripletElements(content, be + 1, accidental,
                                  Append(notes, Chord(r.notes, <<>>, "")))
    ELSE LET o == ReadRun(content, i, OctaveChars, <<>>)
         IN  IF o.i <= Len(content) /\ content[o.i] \in RestOrPitchDigits
             THEN TripletElements(content, o.i + 1, accidental,
                                  Append(notes, Note(DigitValue(content[o.i]), o.tok,
                                                     accidental, <<>>, "",
                                                     content[o.i] = "0")))
             ELSE [ok |-> FALSE, notes |-> notes, i |-> i]

(* _parse_triplet *)
parse_triplet(token) ==
    LET acc   == TokenAccidental(token)
        start == IF acc = "" THEN 1 ELSE 2
        as    == FindFrom(token, "<", start)
        ae    == RFind(token, ">")
        suffix == SubSeq(token, ae + 1, Len(token))
        content == RemoveSpaces(SubSeq(token, as + 1, ae - 1))
        r     == TripletElements(content, 1, acc, <<>>)
    IN  IF as = 0 \/ ae = 0 THEN ParseFail
        ELSE IF ~r.ok THEN ParseFail
        ELSE IF Len(r.notes) # 3 THEN ParseFail
        ELSE IF r.i <= Len(content) THEN ParseFail
        ELSE ParseOk(Triplet(r.notes, SuffixDuration(suffix), SuffixModifier(suffix), acc))

ModifierSeq(modifier) == IF modifier = "" THEN <<>> ELSE <<modifier>>

AccidentalSeq(accidental) == IF accidental = "" THEN <<>> ELSE <<accidental>>

(* the `while i < len(grace_content)` loop of _parse_grace_note (lines     *)
(* 765-805); [ok, notes, main] with main a sequence of zero or one node    *)
RECURSIVE GraceElements(_, _, _, _, _, _)
GraceElements(content, i, accidental, duration, modifier, notes) ==
    IF i > Len(content) THEN [ok |-> TRUE, notes |-> notes, main |-> <<>>]
    ELSE IF content[i] = "<"
    THEN LET ae == FindFrom(content, ">", i)
             Main(t) ==
                 IF ae = 0 \/ ~t.ok THEN [ok |-> FALSE, notes |-> notes, main |-> <<>>]
                 ELSE [ok |-> TRUE, notes |-> notes, main |-> <<t.node>>]
         IN  Main(parse_triplet(AccidentalSeq(accidental) \o SubSeq(content, i, ae)
                                \o duration \o ModifierSeq(modifier)))
    ELSE IF content[i] = "["
    THEN LET be == FindFrom(content, "]", i)
             Main(c) ==
                 IF be = 0 \/ ~c.ok THEN [ok |-> FALSE, notes |-> notes, main |-> <<>>]
                 ELSE [ok |-> TRUE, notes |-> notes, main |-> <<c.node>>]
         IN  Main(parse_chord(AccidentalSeq(accidental) \o SubSeq(content, i, be)
                              \o duration \o ModifierSeq(modifier)))
    ELSE LET o == ReadRun(content, i, OctaveChars, <<>>)
         IN  IF o.i <= Len(content) /\ content[o.i] \in PitchDigits
             THEN GraceElements(content, o.i + 1, accidental, duration, modifier,
                                Append(notes, Note(DigitValue(content[o.i]), o.tok,
                                                   accidental, <<>>, "", FALSE)))
             ELSE [ok |-> FALSE, notes |-> notes, main |-> <<>>]

(* _parse_grace_note *)
parse_grace_note(token) ==
    LET acc   == TokenAccidental(token)
        start == IF acc = "" THEN 1 ELSE 2
        bs    == FindFrom(token, "{", start)
        be    == RFind(token, "}")
        suffix == SubSeq(token, be + 1, Len(token))
        content == RemoveSpaces(SubSeq(token, bs + 1, be - 1))
        Build(r, duration, modifier) ==
            IF ~r.ok THEN ParseFail
            ELSE IF r.notes = <<>> /\ r.main = <<>> THEN ParseFail
            ELSE IF r.main = <<>>
            THEN ParseOk(Grace(Front(r.notes),
                               [Last(r.notes) EXCEPT !.duration = duration,
                                                     !.modifier = modifier],
                               duration, modifier))
            ELSE ParseOk(Grace(r.notes, r.main[1], duration, modifier))
        WithSuffix(duration, modifier) ==
            Build(GraceElements(content, 1, acc, duration, modifier, <<>>),
                  duration, modifier)
    IN  IF be = 0 THEN ParseFail
        ELSE WithSuffix(SuffixDuration(suffix), SuffixModifier(suffix))

StartsGroup(token, open) ==
    \/ (token # <<>> /\ token[1] = open)
    \/ (Len(token) > 1 /\ token[1] \in AccidentalChars /\ token[2] = open)

(* _parse_token *)
parse_token(token) ==
    IF StartsGroup(token, "<") /\ Contains(token, ">") THEN parse_triplet(token)
    ELSE IF StartsGroup(token, "{") /\ Contains(token, "}") THEN parse_grace_note(token)
    ELSE IF StartsGroup(token, "[") /\ Contains(token, "]") THEN parse_chord(token)
    ELSE parse_single_note(token)

(***************************************************************************)
(* _get_token_duration, in thousandths of a beat.                          *)
(***************************************************************************)
DurationQuarter == 1000

DurationEighth == 500

DurationSixteenth == 250

DurationDotted == 1500

get_token_duration(node) ==
    LET s  == node.duration
        us == CountChar(s, "_")
        base == IF us = 1 THEN DurationEighth
                ELSE IF us = 2 THEN DurationSixteenth ELSE 0
        dotted == IF Contains(s, ".")
                  THEN (IF Contains(s, "_") THEN (base * 3) \div 2
                        ELSE base + DurationDotted)
                  ELSE base
    IN  IF dotted = 0 THEN DurationQuarter ELSE dotted

(* _count_notes_in_token *)
RECURSIVE SumChordSizes(_)
SumChordSizes(notes) ==
    IF notes = <<>> THEN 0
    ELSE (IF Head(notes).kind = "chord" THEN Len(Head(notes).notes) ELSE 1)
         + SumChordSizes(Tail(notes))

count_notes_in_token(node) ==
    CASE node.kind = "note" -> 1
      [] node.kind = "chord" -> Len(node.notes)
      [] node.kind = "grace" ->
            Len(node.grace_notes)
            + (IF node.main_note.kind = "chord" THEN Len(node.main_note.notes) ELSE 1)
      [] node.kind = "triplet" -> SumChordSizes(node.notes)
      [] OTHER -> 0

(***************************************************************************)
(* Second pass: timeline events.  A TimeEvent is [time, event_type, key,   *)
(* track_id] with time in microseconds.  Every generator takes the         *)
(* accidental state current_sharp_flat_state and yields [events, state].   *)
(***************************************************************************)
TimeEvent(time, event_type, key, track_id) ==
    [time |-> time, event_type |-> event_type, key |-> key, track_id |-> track_id]

(* self.note_to_key *)
note_to_key(pitch) ==
    CASE pitch = 1 -> "Q" [] pitch = 2 -> "W" [] pitch = 3 -> "E" [] pitch = 4 -> "R"
      [] pitch = 5 -> "T" [] pitch = 6 -> "Y" [] pitch = 7 -> "U"

NoteKeys == {"Q", "W", "E", "R", "T", "Y", "U"}

(* self.modifier_keys; the arrow characters are spelled out *)
modifier_keys(modifier) ==
    CASE modifier = "~" -> "up_arrow" [] modifier = "*" -> "down_arrow"
      [] modifier = "&" -> "shift" [] modifier = "@" -> "ctrl"

(* the modifier_release follows the press by 0.001 s *)
ReleaseDelay == 1000

(* grace notes are 0.05 s apart *)
GraceSpacing == 50000

Natural == [sharp |-> FALSE, flat |-> FALSE]

Sharp == [sharp |-> TRUE, flat |-> FALSE]

Flat == [sharp |-> FALSE, flat |-> TRUE]

ModifierPress(modifier, start_time, track_id) ==
    IF modifier \in ModifierChars
    THEN <<TimeEvent(start_time, "modifier_press", modifier_keys(modifier), track_id)>>
    ELSE <<>>

ModifierRelease(modifier, start_time, track_id) ==
    IF modifier \in ModifierChars
    THEN <<TimeEvent(start_time + ReleaseDelay, "modifier_release",
                     modifier_keys(modifier), track_id)>>
    ELSE <<>>

(* accidental handling that presses the toggle for every sharp or flat     *)
(* note, whatever the state                                                *)
accidental_events_stateless(accidental, start_time, track_id, state) ==
    IF accidental = "#"
    THEN [events |-> <<TimeEvent(start_time, "key_press", "+", track_id)>>,
          state |-> [sharp |-> TRUE, flat |-> FALSE]]
    ELSE IF accidental = "b"
    THEN [events |-> <<TimeEvent(start_time, "key_press", "-", track_id)>>,
          state |-> [sharp |-> FALSE, flat |-> TRUE]]
    ELSE [events |-> IF state.sharp
                     THEN <<TimeEvent(start_time, "key_press", "-", track_id)>>
                     ELSE IF state.flat
                     THEN <<TimeEvent(start_time, "key_press", "+", track_id)>>
                     ELSE <<>>,
          state |-> [sharp |-> FALSE, flat |-> FALSE]]

(* the accidental handling of _generate_note_events (lines 1021-1039),     *)
(* repeated verbatim in _generate_triplet_events (lines 1115-1133)         *)
accidental_events(accidental, start_time, track_id, state) ==
    IF accidental = "#"
    THEN IF ~state.sharp
         THEN [events |-> <<TimeEvent(start_time, "key_press", "+", track_id)>>,
               state |-> [sharp |-> TRUE, flat |-> FALSE]]
         ELSE [events |-> <<>>, state |-> state]
    ELSE IF accidental = "b"
    THEN IF ~state.flat
         THEN [events |-> <<TimeEvent(start_time, "key_press", "-", track_id)>>,
               state |-> [sharp |-> FALSE, flat |-> TRUE]]
         ELSE [events |-> <<>>, state |-> state]
    ELSE [events |-> IF state.sharp
                     THEN <<TimeEvent(start_time, "key_press", "-", track_id)>>
                     ELSE IF state.flat
                     THEN <<TimeEvent(start_time, "key_press", "+", track_id)>>
                     ELSE <<>>,
          state |-> [sharp |-> FALSE, flat |-> FALSE]]

(* a rest handled as any other note: no early return for is_rest *)
generate_note_events_rest_as_note(note, start_time, track_id, state) ==
    LET a == accidental_events(note.accidental, start_time, track_id, state)
    IN  [events |-> a.events
                    \o ModifierPress(note.modifier, start_time, track_id)
                    \o (IF note.pitch \in 1..7
                        THEN <<TimeEvent(start_time, "key_press",
                                         note_to_key(note.pitch), track_id)>>
                        ELSE <<>>)
                    \o ModifierRelease(note.modifier, start_time, track_id),
         state |-> a.state]

(* _generate_note_events *)
generate_note_events(note, start_time, track_id, state) ==
    IF note.is_rest THEN [events |-> <<>>, state |-> state]
    ELSE LET a == accidental_events(note.accidental, start_time, track_id, state)
         IN  [events |-> a.events
                         \o ModifierPress(note.modifier, start_time, track_id)
                         \o (IF note.pitch \in 1..7
                             THEN <<TimeEvent(start_time, "key_press",
                                              note_to_key(note.pitch), track_id)>>
                             ELSE <<>>)
                         \o ModifierRelease(note.modifier, start_time, track_id),
              state |-> a.state]

(* the filter of _generate_chord_events on a note's events (lines          *)
(* 1067-1069): only key presses of the seven note keys are kept            *)
ChordKeep(events) ==
    SelectSeq(events, LAMBDA e : e.event_type = "key_press" /\ e.key \in NoteKeys)

(* the loop over chord.notes of _generate_chord_events *)
RECURSIVE ChordNotes(_, _, _, _)
ChordNotes(notes, start_time, track_id, state) ==
    IF notes = <<>> THEN [events |-> <<>>, state |-> state]
    ELSE LET Rest(n, r) == [events |-> ChordKeep(n.events) \o r.events, state |-> r.state]
             First(n) == Rest(n, ChordNotes(Tail(notes), start_time, track_id, n.state))
         IN  First(generate_note_events(Head(notes), start_time, track_id, state))

(* a rolled chord: each note of the chord is pressed GraceSpacing after    *)
(* the one before it                                                       *)
generate_chord_events_rolled(chord, start_time, track_id, state) ==
    LET Wrap(r) ==
            [events |-> ModifierPress(chord.modifier, start_time, track_id)
                        \o [k \in 1..Len(r.events) |->
                               [r.events[k] EXCEPT !.time = @ + (k - 1) * GraceSpacing]]
                        \o ModifierRelease(chord.modifier, start_time, track_id),
             state |-> r.state]
    IN  Wrap(ChordNotes(chord.notes, start_time, track_id, state))

(* _generate_chord_events *)
generate_chord_events(chord, start_time, track_id, state) ==
    LET Wrap(r) ==
            [events |-> ModifierPress(chord.modifier, start_time, track_id)
                        \o r.events
                        \o ModifierRelease(chord.modifier, start_time, track_id),
             state |-> r.state]
    IN  Wrap(ChordNotes(chord.notes, start_time, track_id, state))

(* the key presses of one element of a triplet at time t (lines 1148-1156) *)
RECURSIVE PlainPresses(_, _, _)
PlainPresses(notes, t, track_id) ==
    IF notes = <<>> THEN <<>>
    ELSE (IF ~Head(notes).is_rest /\ Head(notes).pitch \in 1..7
          THEN <<TimeEvent(t, "key_press", note_to_key(Head(notes).pitch), track_id)>>
          ELSE <<>>)
         \o PlainPresses(Tail(notes), t, track_id)

TripletElementEvents(element, t, track_id) ==
    IF element.kind = "chord" THEN PlainPresses(element.notes, t, track_id)
    ELSE PlainPresses(<<element>>, t, track_id)

(* duration * beat_duration, in microseconds: duration is in thousandths   *)
(* of a beat, and the product is taken in two parts to stay within 32 bits *)
SpanMicros(duration, beat_duration) ==
    duration * (beat_duration \div 1000) + (duration * (beat_duration % 1000)) \div 1000

(* a subdivision that gives the remainder to the first span *)
triplet_note_durations_remainder_first(triplet, beat_duration) ==
    LET total_ms == SpanMicros(get_token_duration(triplet), beat_duration) \div 1000
        base_ms == total_ms \div 3
        remainder == total_ms % 3
    IN  <<base_ms + remainder, base_ms, base_ms>>

(* the three spans of a triplet in whole milliseconds (lines 1136-1143) *)
triplet_note_durations(triplet, beat_duration) ==
    LET total_ms == SpanMicros(get_token_duration(triplet), beat_duration) \div 1000
        base_ms == total_ms \div 3
        remainder == total_ms % 3
    IN  <<base_ms, base_ms, base_ms + remainder>>

(* _generate_triplet_events *)
generate_triplet_events(triplet, start_time, beat_duration, track_id, state) ==
    LET a  == accidental_events(triplet.accidental, start_time, track_id, state)
        nd == triplet_note_durations(triplet, beat_duration)
        t1 == start_time
        t2 == t1 + nd[1] * 1000
        t3 == t2 + nd[2] * 1000
    IN  [events |-> ModifierPress(triplet.modifier, start_time, track_id)
                    \o a.events
                    \o TripletElementEvents(triplet.notes[1], t1, track_id)
                    \o TripletElementEvents(triplet.notes[2], t2, track_id)
                    \o TripletElementEvents(triplet.notes[3], t3, track_id)
                    \o ModifierRelease(triplet.modifier, start_time, track_id),
         state |-> a.state]

(* grace notes played all at once: grace_time is never advanced *)
RECURSIVE GraceNotesTogether(_, _, _, _)
GraceNotesTogether(notes, grace_time, track_id, state) ==
    IF notes = <<>> THEN [events |-> <<>>, state |-> state, grace_time |-> grace_time]
    ELSE LET Rest(n, r) == [events |-> n.events \o r.events, state |-> r.state,
                             grace_time |-> r.grace_time]
             First(n) == Rest(n, GraceNotesTogether(Tail(notes), grace_time,
                                                    track_id, n.state))
         IN  First(generate_note_events(Head(notes), grace_time, track_id, state))

(* the loop over grace.grace_notes of _generate_grace_events *)
RECURSIVE GraceNotes(_, _, _, _)
GraceNotes(notes, grace_time, track_id, state) ==
    IF notes = <<>> THEN [events |-> <<>>, state |-> state, grace_time |-> grace_time]
    ELSE LET Rest(n, r) == [events |-> n.events \o r.events, state |-> r.state,
                             grace_time |-> r.grace_time]
             First(n) == Rest(n, GraceNotes(Tail(notes), grace_time + GraceSpacing,
                                            track_id, n.state))
         IN  First(generate_note_events(Head(notes), grace_time, track_id, state))

(* _generate_grace_events *)
generate_grace_events(grace, start_time, beat_duration, track_id, state) ==
    LET Wrap(g, main) ==
            [events |-> ModifierPress(grace.modifier, start_time, track_id)
                        \o g.events
                        \o main.events
                        \o ModifierRelease(grace.modifier, start_time, track_id),
             state |-> main.state]
        Main(g) ==
            Wrap(g, IF grace.main_note.kind = "chord"
                    THEN generate_chord_events(grace.main_note, g.grace_time, track_id,
                                               g.state)
                    ELSE IF grace.main_note.kind = "triplet"
                    THEN generate_triplet_events(grace.main_note, g.grace_time,
                                                 beat_duration, track_id, g.state)
                    ELSE generate_note_events(grace.main_note, g.grace_time, track_id,
                                              g.state))
    IN  Main(GraceNotes(grace.grace_notes, start_time, track_id, state))

(* _generate_token_events *)
generate_token_events(token, start_time, beat_duration, track_id, state) ==
    CASE token.kind = "note" -> generate_note_events(token, start_time, track_id, state)
      [] token.kind = "chord" -> generate_chord_events(token, start_time, track_id, state)
      [] token.kind = "grace" ->
            generate_grace_events(token, start_time, beat_duration, track_id, state)
      [] token.kind = "triplet" ->
            generate_triplet_events(token, start_time, beat_duration, track_id, state)
      [] OTHER -> [events |-> <<>>, state |-> state]

(***************************************************************************)
(* _parse_track_timeline.  The result also records, for every token, the   *)
(* start_time handed to _generate_token_events and the token's duration    *)
(* (starts), and whether an exception left the function (raised).          *)
(***************************************************************************)

(* the part between a leading and a trailing bar; line[1:-1] *)
StripBars(line) ==
    IF line # <<>> /\ Head(line) = "|" /\ Last(line) = "|"
    THEN SubSeq(line, 2, Len(line) - 1)
    ELSE line

(* the loop `for token in tokens` (lines 982-991) *)
RECURSIVE TimelineTokens(_, _, _, _, _)
TimelineTokens(tokens, beat_duration, track_id, acc, warn_line) ==
    IF tokens = <<>> \/ acc.raised THEN acc
    ELSE LET Step(p, g, d) ==
                 TimelineTokens(Tail(tokens), beat_duration, track_id,
                    [raised |-> FALSE,
                     events |-> acc.events \o g.events,
                     state |-> g.state,
                     current_time |-> acc.current_time + SpanMicros(d, beat_duration),
                     starts |-> Append(acc.starts,
                                       [start_time |-> acc.current_time,
                                        duration |-> d,
                                        node |-> p.node,
                                        events |-> g.events,
                                        before |-> acc.state,
                                        after |-> g.state]),
                     warnings |-> acc.warnings
                                  \o (IF p.node.kind = "note"
                                      THEN [k \in 1..Len(note_warnings(p.node)) |->
                                               [line |-> warn_line,
                                                kind |-> note_warnings(p.node)[k],
                                                token |-> Head(tokens)]]
                                      ELSE <<>>)],
                    warn_line)
             Parsed(p) ==
                 IF ~p.ok THEN [acc EXCEPT !.raised = TRUE]
                 ELSE Step(p,
                           generate_token_events(p.node, acc.current_time, beat_duration,
                                                 track_id, acc.state),
                           get_token_duration(p.node))
         IN  Parsed(parse_token(Head(tokens)))

(* a timeline whose clock restarts at every bar line *)
RECURSIVE TimelineMeasuresRestart(_, _, _, _, _)
TimelineMeasuresRestart(measures, beat_duration, track_id, acc, warn_line) ==
    IF measures = <<>> \/ acc.raised THEN acc
    ELSE LET Tokenized(t) ==
                 IF t.raised THEN [acc EXCEPT !.raised = TRUE]
                 ELSE TimelineMeasuresRestart(Tail(measures), beat_duration, track_id,
                        TimelineTokens(t.tokens, beat_duration, track_id,
                                       [acc EXCEPT !.current_time = 0], warn_line),
                        warn_line)
             Stripped(measure) ==
                 IF measure = <<>>
                 THEN TimelineMeasuresRestart(Tail(measures), beat_duration, track_id,
                                              acc, warn_line)
                 ELSE Tokenized(tokenize_measure(measure))
         IN  Stripped(Strip(Head(measures)))

(* the loop `for measure in measures` (lines 975-991) *)
RECURSIVE TimelineMeasures(_, _, _, _, _)
TimelineMeasures(measures, beat_duration, track_id, acc, warn_line) ==
    IF measures = <<>> \/ acc.raised THEN acc
    ELSE LET Tokenized(t) ==
                 IF t.raised THEN [acc EXCEPT !.raised = TRUE]
                 ELSE TimelineMeasures(Tail(measures), beat_duration, track_id,
                        TimelineTokens(t.tokens, beat_duration, track_id, acc, warn_line),
                        warn_line)
             Stripped(measure) ==
                 IF measure = <<>>
                 THEN TimelineMeasures(Tail(measures), beat_duration, track_id, acc,
                                       warn_line)
                 ELSE Tokenized(tokenize_measure(measure))
         IN  Stripped(Strip(Head(measures)))

(* every voice generated from the natural state, whatever the voice        *)
(* before it left                                                          *)
parse_track_timeline_from_natural(line, beat_duration, track_id, state, warn_line) ==
    TimelineMeasures(Split(StripBars(line), "|"), beat_duration, track_id,
                     [raised |-> FALSE, events |-> <<>>, state |-> Natural,
                      current_time |-> 0, starts |-> <<>>, warnings |-> <<>>],
                     warn_line)

parse_track_timeline(line, beat_duration, track_id, state, warn_line) ==
    TimelineMeasures(Split(StripBars(line), "|"), beat_duration, track_id,
                     [raised |-> FALSE, events |-> <<>>, state |-> state,
                      current_time |-> 0, starts |-> <<>>, warnings |-> <<>>],
                     warn_line)

(***************************************************************************)
(* Stable sort of [k1, k2, e] items by (k1, k2), as list.sort does with a  *)
(* key of two components.                                                  *)
(***************************************************************************)
KeyLess(x, y) == x.k1 < y.k1 \/ (x.k1 = y.k1 /\ x.k2 < y.k2)

RECURSIVE InsertStable(_, _)
InsertStable(sorted, x) ==
    IF sorted = <<>> THEN <<x>>
    ELSE IF KeyLess(x, Last(sorted))
    THEN Append(InsertStable(Front(sorted), x), Last(sorted))
    ELSE Append(sorted, x)

RECURSIVE StableSortAcc(_, _)
StableSortAcc(items, acc) ==
    IF items = <<>> THEN acc
    ELSE StableSortAcc(Tail(items), InsertStable(acc, Head(items)))

StableSort(items) == StableSortAcc(items, <<>>)

RECURSIVE Concat(_)
Concat(lists) == IF lists = <<>> THEN <<>> ELSE Head(lists) \o Concat(Tail(lists))

(* the sort key of _merge_track_events: (time, event_type == 'modifier_press') *)
MergeKey(e) ==
    [k1 |-> e.time, k2 |-> IF e.event_type = "modifier_press" THEN 1 ELSE 0, e |-> e]

(* _merge_track_events *)
merge_track_events(track_events) ==
    LET all_events == Concat(track_events)
        sorted == StableSort([k \in 1..Len(all_events) |-> MergeKey(all_events[k])])
    IN  [k \in 1..Len(sorted) |-> sorted[k].e]

(***************************************************************************)
(* Playback encoding.  A playback item is a key token, a release token     *)
(* ("release_" + key) or a delay number in milliseconds (the code's        *)
(* seconds rounded to 3 decimals).                                         *)
(***************************************************************************)
KeyItem(key) == [kind |-> "key", key |-> key, delay |-> 0]

ReleaseItem(key) == [kind |-> "release", key |-> key, delay |-> 0]

DelayItem(ms) == [kind |-> "delay", key |-> "", delay |-> ms]

(* a priority that puts the releases of modifiers before the key presses *)
priority_order_release_early(event_type) ==
    CASE event_type = "modifier_press" -> 0
      [] event_type = "modifier_release" -> 1
      [] event_type = "key_press" -> 2
      [] event_type = "key_release" -> 3
      [] OTHER -> 4

(* priority_order of _add_time_events_to_playback *)
priority_order(event_type) ==
    CASE event_type = "modifier_press" -> 0
      [] event_type = "key_press" -> 1
      [] event_type = "modifier_release" -> 2
      [] event_type = "key_release" -> 3
      [] OTHER -> 4

(* an order of the key names that puts the letters before '+' and '-' *)
KeyOrderLettersFirst == <<"E", "Q", "R", "T", "U", "W", "Y", "+", "-", "ctrl", "shift",
                          "up_arrow", "down_arrow">>

(* the order of the key names as Python compares the strings *)
KeyOrder == <<"+", "-", "E", "Q", "R", "T", "U", "W", "Y", "ctrl", "shift",
              "up_arrow", "down_arrow">>

KeyRank(key) == CHOOSE k \in 1..Len(KeyOrder) : KeyOrder[k] = key

GroupKey(e) == [k1 |-> priority_order(e.event_type), k2 |-> KeyRank(e.key), e |-> e]

(* an emitting loop that forgets the keys it has seen *)
RECURSIVE EmitGroupRepeating(_, _, _)
EmitGroupRepeating(events, seen_keys, playback_data) ==
    IF events = <<>> THEN playback_data
    ELSE LET e == Head(events)
         IN  IF e.event_type \in {"key_press", "modifier_press"}
             THEN EmitGroupRepeating(Tail(events), seen_keys,
                                     Append(playback_data, KeyItem(e.key)))
             ELSE IF e.event_type = "modifier_release"
             THEN EmitGroupRepeating(Tail(events), seen_keys,
                                     Append(playback_data, ReleaseItem(e.key)))
             ELSE EmitGroupRepeating(Tail(events), seen_keys, playback_data)

(* the de-duplicating loop of _add_time_events_to_playback (lines 1226-1235) *)
RECURSIVE EmitGroup(_, _, _)
EmitGroup(events, seen_keys, playback_data) ==
    IF events = <<>> THEN playback_data
    ELSE LET e == Head(events)
         IN  IF e.event_type \in {"key_press", "modifier_press"} /\ e.key \notin seen_keys
             THEN EmitGroup(Tail(events), seen_keys \cup {e.key},
                            Append(playback_data, KeyItem(e.key)))
             ELSE IF e.event_type = "modifier_release"
             THEN EmitGroup(Tail(events), seen_keys,
                            Append(playback_data, ReleaseItem(e.key)))
             ELSE EmitGroup(Tail(events), seen_keys, playback_data)

(* _add_time_events_to_playback *)
add_time_events_to_playback(events, playback_data) ==
    LET sorted == StableSort([k \in 1..Len(events) |-> GroupKey(events[k])])
    IN  EmitGroup([k \in 1..Len(sorted) |-> sorted[k].e], {}, playback_data)

(* events closer than this (0.001 s) to the start of a group join it *)
GroupTolerance == 1000

(* Whether the double current_time + 0.001 lies above the real sum, told   *)
(* by the power of two at or below the sum t (in microseconds): the sum    *)
(* is rounded to a multiple of the unit in the last place of its binade,   *)
(* and 0.001 is rounded up in the binades listed.  Event times are 0 or    *)
(* at least 16 ms, so sums below 15.625 ms arise from current_time = 0     *)
(* only, where the sum is exactly 0.001.                                   *)
SumRoundsUp(t) ==
    \/ (15625 <= t /\ t < 1000000)
    \/ (4000000 <= t /\ t < 8000000)
    \/ (16000000 <= t /\ t < 32000000)
    \/ (64000000 <= t /\ t < 256000000)

(* abs(event.time - current_time) > 0.001 (line 1191) in the code's        *)
(* double arithmetic: decided by the real difference unless that is        *)
(* exactly 0.001 s, the case of a modifier_release computed as             *)
(* start_time + 0.001 in the group its modifier_press opened, where the    *)
(* rounding of the sum decides                                             *)
exceeds_tolerance(event_time, current_time) ==
    LET d == Abs(event_time - current_time)
    IN  d > GroupTolerance \/ (d = GroupTolerance /\ SumRoundsUp(event_time))

(* round(delay, 3): microseconds to the nearest millisecond, ties to even *)
Round3(us) ==
    LET q == us \div 1000
        r == us % 1000
    IN  IF r > 500 \/ (r = 500 /\ q % 2 = 1) THEN q + 1 ELSE q

KeyPressCount(events) ==
    Len(SelectSeq(events, LAMBDA e : e.event_type = "key_press" /\ e.key \in NoteKeys))

(* a loop that also encodes the silence before the first group *)
RECURSIVE PlaybackLoopLeadingDelay(_, _)
PlaybackLoopLeadingDelay(events, acc) ==
    IF events = <<>> THEN acc
    ELSE LET event == Head(events)
             flushed == add_time_events_to_playback(acc.current_time_events,
                                                    acc.playback_data)
         IN  IF exceeds_tolerance(event.time, acc.current_time)
             THEN PlaybackLoopLeadingDelay(Tail(events),
                    [playback_data |->
                        IF event.time > acc.current_time
                        THEN Append(flushed, DelayItem(Round3(event.time - acc.current_time)))
                        ELSE flushed,
                     total_key_presses |-> acc.total_key_presses
                                           + KeyPressCount(acc.current_time_events),
                     current_time_events |-> <<event>>,
                     current_time |-> event.time])
             ELSE PlaybackLoopLeadingDelay(Tail(events),
                    [acc EXCEPT !.current_time_events = Append(@, event)])

(* the loop `for event in events` of _generate_final_playback *)
RECURSIVE PlaybackLoop(_, _)
PlaybackLoop(events, acc) ==
    IF events = <<>> THEN acc
    ELSE LET event == Head(events)
             flushed == add_time_events_to_playback(acc.current_time_events,
                                                    acc.playback_data)
         IN  IF exceeds_tolerance(event.time, acc.current_time)
             THEN PlaybackLoop(Tail(events),
                    [playback_data |->
                        IF acc.current_time_events = <<>> THEN acc.playback_data
                        ELSE IF event.time > acc.current_time
                        THEN Append(flushed, DelayItem(Round3(event.time - acc.current_time)))
                        ELSE flushed,
                     total_key_presses |-> acc.total_key_presses
                                           + KeyPressCount(acc.current_time_events),
                     current_time_events |-> <<event>>,
                     current_time |-> event.time])
             ELSE PlaybackLoop(Tail(events),
                    [acc EXCEPT !.current_time_events = Append(@, event)])

(* _generate_final_playback *)
generate_final_playback(events) ==
    LET Finish(acc) ==
            [playback_data |-> add_time_events_to_playback(acc.current_time_events,
                                                           acc.playback_data),
             total_key_presses |-> acc.total_key_presses
                                   + KeyPressCount(acc.current_time_events),
             total_duration |-> IF events = <<>> THEN 0 ELSE Last(events).time]
    IN  Finish(PlaybackLoop(events, [playback_data |-> <<>>, total_key_presses |-> 0,
                                     current_time_events |-> <<>>, current_time |-> 0]))

(***************************************************************************)
(* First pass.  The parser object is the record self, with the fields      *)
(* reset_parse_state sets.  A ParseError is [line, position, kind, token,  *)
(* expected, actual]: kind stands for the message, token is the text a     *)
(* syntax error names, expected and actual are the totals a duration       *)
(* error reports (thousandths of a beat).                                  *)
(***************************************************************************)
ParseError(line, position, kind, token, expected, actual) ==
    [line |-> line, position |-> position, kind |-> kind, token |-> token,
     expected |-> expected, actual |-> actual]

(* the fields of a parser right after __init__ *)
FreshSelf ==
    [bpm |-> 0, time_signature |-> <<>>, beats_per_measure |-> 4, beat_unit |-> 4,
     errors |-> <<>>, warnings |-> <<>>, total_measures |-> 0, total_notes |-> 0,
     current_line |-> 0, current_sharp_flat_state |-> [sharp |-> FALSE, flat |-> FALSE]]

(* a reset that leaves the accidental state of the previous document *)
reset_keeps_accidental(old) ==
    [FreshSelf EXCEPT !.current_sharp_flat_state = old.current_sharp_flat_state]

(* reset_parse_state: every field is assigned, whatever it held (old) *)
reset_parse_state(old) == FreshSelf

(* self.supported_beats *)
supported_beats == {<<"2", "/", "4">>, <<"3", "/", "4">>, <<"4", "/", "4">>}

RECURSIVE DigitsValue(_, _)
DigitsValue(s, acc) ==
    IF s = <<>> THEN acc ELSE DigitsValue(Tail(s), acc * 10 + DigitValue(Head(s)))

(* int(text): blanks stripped, an optional sign, then decimal digits;      *)
(* ok = FALSE is ValueError                                                *)
PyInt(text) ==
    LET s == Strip(text)
        signed == s # <<>> /\ Head(s) \in {"+", "-"}
        digits == IF signed THEN Tail(s) ELSE s
    IN  IF digits # <<>> /\ \A k \in 1..Len(digits) : digits[k] \in DigitChars
        THEN [ok |-> TRUE,
              value |-> IF signed /\ Head(s) = "-" THEN 0 - DigitsValue(digits, 0)
                        ELSE DigitsValue(digits, 0)]
        ELSE [ok |-> FALSE, value |-> 0]

MaxBpm == 300

(* the BPM check without its upper limit *)
check_bpm_no_upper_limit(self, lines) ==
    LET b == PyInt(Strip(lines[1]))
    IN  IF ~b.ok
        THEN [self EXCEPT !.errors = Append(@, ParseError(1, 0, "bpm_format", <<>>, 0, 0))]
        ELSE IF b.value <= 0
        THEN [self EXCEPT !.bpm = b.value,
                          !.errors = Append(@, ParseError(1, 0, "bpm_range", <<>>, 0, 0))]
        ELSE [self EXCEPT !.bpm = b.value]

(* the BPM check of _first_pass_validation (lines 212-222) *)
check_bpm(self, lines) ==
    LET b == PyInt(Strip(lines[1]))
    IN  IF ~b.ok
        THEN [self EXCEPT !.errors = Append(@, ParseError(1, 0, "bpm_format", <<>>, 0, 0))]
        ELSE IF b.value <= 0 \/ b.value > MaxBpm
        THEN [self EXCEPT !.bpm = b.value,
                          !.errors = Append(@, ParseError(1, 0, "bpm_range", <<>>, 0, 0))]
        ELSE [self EXCEPT !.bpm = b.value]

(* the time signature check of _first_pass_validation (lines 224-234) *)
check_time_signature(self, lines) ==
    LET ts == Strip(lines[2])
        parts == Split(ts, "/")
    IN  IF ts \notin supported_beats
        THEN [self EXCEPT !.time_signature = ts,
                          !.errors = Append(@, ParseError(2, 0, "unsupported_beat", <<>>, 0, 0))]
        ELSE [self EXCEPT !.time_signature = ts,
                          !.beats_per_measure = PyInt(parts[1]).value,
                          !.beat_unit = PyInt(parts[2]).value]

(* the measures of one score line (lines 242-253) *)
RECURSIVE LineParts(_, _, _)
LineParts(parts, line_idx, part_idx) ==
    IF parts = <<>> THEN <<>>
    ELSE (IF Strip(Head(parts)) # <<>>
          THEN <<[line_idx |-> line_idx, part_idx |-> part_idx,
                  measure |-> Strip(Head(parts))]>>
          ELSE <<>>)
         \o LineParts(Tail(parts), line_idx, part_idx + 1)

(* the loop over score_lines that collects the measures (lines 237-253) *)
RECURSIVE collect_measures(_, _)
collect_measures(lines, line_idx) ==
    IF line_idx > Len(lines) THEN <<>>
    ELSE LET line == Strip(lines[line_idx])
         IN  (IF line = <<>> THEN <<>>
              ELSE LineParts(Split(StripBars(line), "|"), line_idx, 0))
             \o collect_measures(lines, line_idx + 1)

(* the loop `for token in tokens` of _validate_measure (lines 283-293) *)
RECURSIVE ValidateTokens(_, _, _)
ValidateTokens(tokens, entry, acc) ==
    IF tokens = <<>> THEN acc
    ELSE LET Warned(p, w) ==
                 [acc EXCEPT !.measure_duration = @ + get_token_duration(p.node),
                             !.note_count = @ + count_notes_in_token(p.node),
                             !.warnings = @ \o [k \in 1..Len(w) |->
                                                  [line |-> acc.current_line,
                                                   kind |-> w[k],
                                                   token |-> Head(tokens)]]]
             Parsed(p) ==
                 IF p.ok
                 THEN Warned(p, IF p.node.kind = "note" THEN note_warnings(p.node)
                                ELSE <<>>)
                 ELSE [acc EXCEPT !.errors = Append(@,
                          ParseError(entry.line_idx, entry.part_idx, "syntax",
                                     Head(tokens), 0, 0))]
         IN  ValidateTokens(Tail(tokens), entry, Parsed(parse_token(Head(tokens))))

(* a beat in thousandths; float(self.beats_per_measure) is beats * BeatUnits *)
BeatUnits == 1000

(* abs(measure_duration - expected_duration) > 0.001 *)
DurationTolerance == 1

(* over-full measures pass: only a total below the expected one is flagged *)
duration_mismatch_short_only(measure_duration, expected_duration) ==
    expected_duration - measure_duration > DurationTolerance

(* the test of line 297 *)
duration_mismatch(measure_duration, expected_duration) ==
    Abs(measure_duration - expected_duration) > DurationTolerance

(* _validate_measure; raised = TRUE when _tokenize_measure raises *)
validate_measure(self, entry) ==
    LET expected_duration == self.beats_per_measure * BeatUnits
        Checked(v) ==
            [raised |-> FALSE,
             self |-> [self EXCEPT
                 !.errors = IF duration_mismatch(v.measure_duration, expected_duration)
                            THEN Append(v.errors,
                                   ParseError(entry.line_idx, entry.part_idx, "duration",
                                              <<>>, expected_duration, v.measure_duration))
                            ELSE v.errors,
                 !.warnings = v.warnings,
                 !.total_notes = @ + v.note_count]]
        Tokenized(t) ==
            IF t.raised THEN [raised |-> TRUE, self |-> self]
            ELSE Checked(ValidateTokens(t.tokens, entry,
                            [measure_duration |-> 0, note_count |-> 0,
                             errors |-> self.errors, warnings |-> self.warnings,
                             current_line |-> self.current_line]))
    IN  Tokenized(tokenize_measure(entry.measure))

(* _create_error_result *)
create_error_result(self) ==
    [success |-> FALSE, errors |-> self.errors, warnings |-> self.warnings,
     error_count |-> Len(self.errors)]

(* 60.0 / self.bpm, in microseconds *)
beat_duration_of(bpm) == 60000000 \div bpm

(* the dictionary _second_pass_generation returns (lines 918-962) *)
success_result(self, playback, track_count) ==
    [success |-> TRUE,
     playback_data |-> playback.playback_data,
     statistics |-> [duration_seconds |-> playback.total_duration,
                     total_key_presses |-> playback.total_key_presses,
                     bpm |-> self.bpm,
                     time_signature |-> self.time_signature,
                     total_measures |-> self.total_measures,
                     total_notes |-> self.total_notes,
                     track_count |-> track_count]]

(***************************************************************************)
(* Input documents: the list content.strip().split(newline) of a score     *)
(* text.  A document is a BPM line, a time signature line and up to        *)
(* MaxVoices score lines; two documents stop before the first score line.  *)
(***************************************************************************)
MaxVoices == 2

MaxRuns == 2

Headers ==
    {<< <<"1", "2", "0">>, <<"2", "/", "4">> >>,
     << <<"1", "2", "0">>, <<"3", "/", "4">> >>,
     << <<"6", "0">>, <<"2", "/", "4">> >>,
     << <<"4", "0", "0">>, <<"2", "/", "4">> >>,
     << <<"a", "b", "c">>, <<"3", "/", "4">> >>,
     << <<"0">>, <<"2", "/", "4">> >>,
     << <<"1", "2", "0">>, <<"5", "/", "4">> >>}

VoiceLines ==
    {
      <<"|", "1", " ", "1", "|">>,   (* |1 1| *)
      <<"|", "#", "1", " ", "#", "2", " ", "3", "|">>,   (* |#1 #2 3| *)
      <<"|", "1", "#", " ", "2", "#", " ", "3", "|">>,   (* |1# 2# 3| *)
      <<"|", "[", "1", "3", "5", "]", " ", "0", "|">>,   (* |[135] 0| *)
      <<"|", "[", "1", "3", "5", "]", " ", "1", "|">>,   (* |[135] 1| *)
      <<"|", "0", " ", "[", "1", "3", "5", "]", "|">>,   (* |0 [135]| *)
      <<"|", "#", "[", "1", "3", "]", " ", "1", "|">>,   (* |#[13] 1| *)
      <<"|", "0", " ", "0", "|">>,   (* |0 0| *)
      <<"|", "[", "1", " ", "0", "|">>,   (* |[1 0| *)
      <<"|", "9", " ", "1", "|">>,   (* |9 1| *)
      <<"|", "<", "1", "2", "3", ">", " ", "1", "|", "0", " ", "0", "|">>,   (* |<123> 1|0 0| *)
      <<"|", "{", "1", "2", "}", "~", " ", "#", "1", "|">>,   (* |{12}~ #1| *)
      <<"|", "#", "1", "_", " ", "b", "2", "_", " ", "1", "|">>,   (* |#1_ b2_ 1| *)
      <<"1", "_", ".", " ", "1", "_", "_", " ", "1", " ", "|", " ", "1", " ", "1">>,   (* 1_. 1__ 1 | 1 1 *)
      <<"|", "1", " ", "1", " ", "1", "|">>,   (* |1 1 1| *)
      <<"|", "1", " ", "1", " ", "1", " ", "1", "|", "1", " ", "1", " ", "1", " ", "1", " ", "1", "|">>,   (* |1 1 1 1|1 1 1 1 1| *)
      <<"|", "b", "[", "1", "3", "]", " ", "b", "[", "2", "4", "]", "|">>,   (* |b[13] b[24]| *)
      <<"|", "#", "1", " ", "[", "3", "5", "]", "|">>,   (* |#1 [35]| *)
      <<"|">>    (* | *)
    }

ExtraVoiceLines ==
    {
      <<"|", "4", " ", "0", "|">>,   (* |4 0| *)
      <<"|", "#", "1", " ", "1", "|">>    (* |#1 1| *)
    }

ExtraVoices(n) == UNION {[1..k -> ExtraVoiceLines] : k \in 0..n}

Docs ==
    {h \o <<v>> \o rest : h \in Headers, v \in VoiceLines,
                         rest \in ExtraVoices(MaxVoices - 1)}
    \cup {<< <<"1", "2", "0">>, <<"2", "/", "4">> >>, << <<"1", "2", "0">> >>}

(***************************************************************************)
(* The player (src/player.py).  An item of a playback list is a number, a  *)
(* delay in milliseconds here, a string, the sequence of its characters    *)
(* here, or another JSON value.                                            *)
(***************************************************************************)
NumberItem(ms) == [kind |-> "number", delay |-> ms, text |-> <<>>]

StringItem(text) == [kind |-> "string", delay |-> 0, text |-> text]

OtherItem == [kind |-> "other", delay |-> 0, text |-> <<>>]

(* countdown(seconds=3) *)
CountdownSeconds == 3

(* for _ in range(10): the checks of one second of the countdown *)
CountdownChecks == 10

(* step = min(0.01, remaining_delay), in milliseconds *)
SleepStep == 10

(* the number of playbacks asked of one player *)
MaxCalls == 2

(* the playback lists handed to the player *)
PlayerData ==
    {
      <<>>,
      <<StringItem(<<"Q">>)>>,
      <<StringItem(<<"Q">>), NumberItem(25), StringItem(<<"W">>)>>,
      <<StringItem(<<"+">>), StringItem(<<"Q">>), NumberItem(0), OtherItem,
        StringItem(<<"W">>)>>,
      <<StringItem(<<"a", "b">>), NumberItem(10), StringItem(<<"Q">>)>>
    }

(* the fields of a player after __init__; keyboard is FALSE when the       *)
(* keyboard module could not be imported (lines 55-64)                     *)
JX3Player(keyboard) == [should_stop |-> FALSE, keyboard |-> keyboard]

(* no playback is running; returned holds what the calls so far returned   *)
(* and pressed the keys the last call handed to dd.key_press               *)
NoCall ==
    [pc |-> "Idle", data |-> <<>>, second |-> 0, check |-> 0, i |-> 0,
     remaining_delay |-> 0, pressed |-> <<>>, returned |-> <<>>]

(* a stop request is noticed only while ESC is down: should_stop ignored *)
is_stop_requested_esc_only(player, esc_pressed) == player.keyboard /\ esc_pressed

(* is_stop_requested: the flag, or ESC down when there is a keyboard module *)
is_stop_requested(player, esc_pressed) ==
    player.should_stop \/ (player.keyboard /\ esc_pressed)

(***************************************************************************)
(* The state machine of one parser object.                                 *)
(*   doc            the lines of the document being parsed                 *)
(*   pc             the position in parse_content: Idle, Header,           *)
(*                  Validating, Generating, Encoding, Reporting, and the   *)
(*                  ends Failed (success=False returned), Done             *)
(*                  (success=True returned), Raised (an exception left     *)
(*                  parse_content)                                         *)
(*   exc            the exception that left parse_content, if any          *)
(*   self           the parser's fields                                    *)
(*   measures, mi   the list built by the first pass and the index of the  *)
(*                  next measure to validate                               *)
(*   ti             the index of the next score line to generate           *)
(*   track_events, merged_events, playback   locals of the second pass     *)
(*   result         the value parse_content returned, if any               *)
(*   validated      _first_pass_validation returned success=True           *)
(*   track_starts   per track, for every token: its start time, duration,  *)
(*                  events and the accidental state before and after       *)
(*   tokenized      the number of _tokenize_measure calls of this run      *)
(*   runs           the number of parse_content calls on this object       *)
(*   leftover       what the previous call left in the object: the         *)
(*                  accidental state and whether errors were recorded      *)
(*   player         the fields of the JX3Player object                     *)
(*   play           the playback call of the player that is running: its   *)
(*                  position, its locals, and what the calls returned      *)
(*   esc            the ESC key is down                                    *)
(***************************************************************************)
VARIABLES doc, pc, exc, self, measures, mi, ti, track_events, merged_events, playback,
          result, validated, track_starts, tokenized, runs, leftover,
          player, play, esc

parser_vars == <<doc, pc, exc, self, measures, mi, ti, track_events, merged_events,
                 playback, result, validated, track_starts, tokenized, runs, leftover>>

player_vars == <<player, play, esc>>

vars == <<parser_vars, player_vars>>

NoPlayback == [playback_data |-> <<>>, total_key_presses |-> 0, total_duration |-> 0]

Terminal == pc \in {"Failed", "Done", "Raised"}

Init ==
    /\ doc = <<>>
    /\ pc = "Idle"
    /\ exc = ""
    /\ self = FreshSelf
    /\ measures = <<>>
    /\ mi = 1
    /\ ti = 3
    /\ track_events = <<>>
    /\ merged_events = <<>>
    /\ playback = NoPlayback
    /\ result = <<>>
    /\ validated = FALSE
    /\ track_starts = <<>>
    /\ tokenized = 0
    /\ runs = 0
    /\ leftover = [state |-> FreshSelf.current_sharp_flat_state, errors |-> FALSE]
    /\ player = JX3Player(TRUE)
    /\ play = NoCall
    /\ esc = FALSE

(* parse_content, up to the call of _first_pass_validation (lines 189-199) *)
ParseContent ==
    /\ pc = "Idle" \/ Terminal
    /\ runs < MaxRuns
    /\ \E d \in Docs :
        LET fresh == reset_parse_state(self)
            short == [fresh EXCEPT !.errors =
                         Append(@, ParseError(1, 0, "incomplete", <<>>, 0, 0))]
        IN  /\ doc' = d
            /\ IF Len(d) < 3
               THEN /\ self' = short
                    /\ result' = <<create_error_result(short)>>
                    /\ pc' = "Failed"
               ELSE /\ self' = fresh
                    /\ result' = <<>>
                    /\ pc' = "Header"
    /\ leftover' = [state |-> self.current_sharp_flat_state, errors |-> self.errors # <<>>]
    /\ runs' = runs + 1
    /\ exc' = ""
    /\ measures' = <<>>
    /\ mi' = 1
    /\ ti' = 3
    /\ track_events' = <<>>
    /\ merged_events' = <<>>
    /\ playback' = NoPlayback
    /\ validated' = FALSE
    /\ track_starts' = <<>>
    /\ tokenized' = 0
    /\ UNCHANGED player_vars

(* _first_pass_validation: header checks and measure list (lines 212-253) *)
FirstPassHeader ==
    /\ pc = "Header"
    /\ self' = [check_time_signature(check_bpm(self, doc), doc)
                   EXCEPT !.current_line = Len(doc)]
    /\ measures' = collect_measures(doc, 3)
    /\ mi' = 1
    /\ pc' = "Validating"
    /\ UNCHANGED <<doc, exc, ti, track_events, merged_events, playback, result,
                   validated, track_starts, tokenized, runs, leftover>>
    /\ UNCHANGED player_vars

(* one turn of `for ... in measures: self._validate_measure(...)`; the     *)
(* ValueError of _tokenize_measure is caught nowhere                       *)
ValidateMeasure ==
    /\ pc = "Validating"
    /\ mi <= Len(measures)
    /\ LET Validated(v) ==
               /\ self' = v.self
               /\ pc' = IF v.raised THEN "Raised" ELSE "Validating"
               /\ exc' = IF v.raised THEN "ValueError" ELSE exc
       IN  Validated(validate_measure(self, measures[mi]))
    /\ mi' = mi + 1
    /\ tokenized' = tokenized + 1
    /\ UNCHANGED <<doc, measures, ti, track_events, merged_events, playback, result,
                   validated, track_starts, runs, leftover>>
    /\ UNCHANGED player_vars

(* the end of _first_pass_validation and the gate of parse_content         *)
(* (lines 259-262, 275 and 199-204)                                        *)
FirstPassEnd ==
    /\ pc = "Validating"
    /\ mi > Len(measures)
    /\ self' = [self EXCEPT !.total_measures = Len(measures)]
    /\ IF self.errors # <<>>
       THEN /\ result' = <<create_error_result(self')>>
            /\ pc' = "Failed"
            /\ validated' = FALSE
       ELSE /\ result' = <<>>
            /\ pc' = "Generating"
            /\ validated' = TRUE
    /\ ti' = 3
    /\ UNCHANGED <<doc, exc, measures, mi, track_events, merged_events, playback,
                   track_starts, tokenized, runs, leftover>>
    /\ UNCHANGED player_vars

(* one turn of the loop over score_lines of _second_pass_generation        *)
(* (lines 899-905)                                                         *)
GenerateTrack ==
    /\ pc = "Generating"
    /\ ti <= Len(doc)
    /\ LET Generated(t) ==
               /\ self' = [self EXCEPT !.current_sharp_flat_state = t.state,
                                       !.warnings = @ \o t.warnings]
               /\ track_events' = Append(track_events, t.events)
               /\ track_starts' = Append(track_starts, t.starts)
               /\ pc' = IF t.raised THEN "Raised" ELSE "Generating"
               /\ exc' = IF t.raised THEN "ValueError" ELSE exc
           Stripped(line) ==
               IF line = <<>>
               THEN UNCHANGED <<self, track_events, track_starts, pc, exc>>
               ELSE Generated(parse_track_timeline(line, beat_duration_of(self.bpm),
                                                   ti - 3, self.current_sharp_flat_state,
                                                   self.current_line))
       IN  Stripped(Strip(doc[ti]))
    /\ ti' = ti + 1
    /\ UNCHANGED <<doc, measures, mi, merged_events, playback, result, validated,
                   tokenized, runs, leftover>>
    /\ UNCHANGED player_vars

(* _merge_track_events, after the check for an empty track list            *)
(* (lines 907-912)                                                         *)
MergeTracks ==
    /\ pc = "Generating"
    /\ ti > Len(doc)
    /\ IF track_events = <<>>
       THEN /\ pc' = "Raised"
            /\ exc' = "ValueError"
            /\ UNCHANGED merged_events
       ELSE /\ pc' = "Encoding"
            /\ exc' = exc
            /\ merged_events' = merge_track_events(track_events)
    /\ UNCHANGED <<doc, self, measures, mi, ti, track_events, playback, result,
                   validated, track_starts, tokenized, runs, leftover>>
    /\ UNCHANGED player_vars

(* _generate_final_playback (line 915) *)
Encode ==
    /\ pc = "Encoding"
    /\ playback' = generate_final_playback(merged_events)
    /\ pc' = "Reporting"
    /\ UNCHANGED <<doc, exc, self, measures, mi, ti, track_events, merged_events, result,
                   validated, track_starts, tokenized, runs, leftover>>
    /\ UNCHANGED player_vars

(* the rest of _second_pass_generation (lines 918-962): the statistics     *)
(* are printed, with total_key_presses / total_duration (line 948),        *)
(* before the result is returned; a zero duration is ZeroDivisionError     *)
Report ==
    /\ pc = "Reporting"
    /\ IF playback.total_duration = 0
       THEN /\ pc' = "Raised"
            /\ exc' = "ZeroDivisionError"
            /\ UNCHANGED result
       ELSE /\ pc' = "Done"
            /\ exc' = exc
            /\ result' = <<success_result(self, playback, Len(track_events))>>
    /\ UNCHANGED <<doc, self, measures, mi, ti, track_events, merged_events, playback,
                   validated, track_starts, tokenized, runs, leftover>>
    /\ UNCHANGED player_vars

Next ==
    \/ ParseContent
    \/ FirstPassHeader
    \/ ValidateMeasure
    \/ FirstPassEnd
    \/ GenerateTrack
    \/ MergeTracks
    \/ Encode
    \/ Report

Spec == Init /\ [][Next]_vars

(***************************************************************************)
(* A single call of parse_content on a new parser, over scores that        *)
(* exercise triplets, grace notes, modifiers and accidental prefixes at    *)
(* several tempi.  At each tempo a sixteenth lasts a whole number of       *)
(* microseconds that a double holds exactly or to within its last place;   *)
(* at 240 BPM it lasts 62.5 ms, so that delays are rounded.                *)
(***************************************************************************)
ScoreHeaders ==
    {<< <<"3", "0">>, <<"2", "/", "4">> >>,
     << <<"6", "0">>, <<"2", "/", "4">> >>,
     << <<"1", "2", "0">>, <<"2", "/", "4">> >>,
     << <<"1", "5", "0">>, <<"2", "/", "4">> >>,
     << <<"2", "4", "0">>, <<"2", "/", "4">> >>}

ScoreLines ==
    {
      <<"|", "1", " ", "1", "|">>,
      <<"|", "1", "~", " ", "1", "~", "|">>,
      <<"|", "1", "*", " ", "1", "|">>,
      <<"|", "1", "&", " ", "1", "@", "|">>,
      <<"|", "0", "~", " ", "1", "|">>,
      <<"|", "[", "1", "3", "]", "*", " ", "1", "|">>,
      <<"|", "[", "1", "1", "]", " ", "[", "1", "+", "1", "]", "|">>,
      <<"|", "<", "1", "2", "3", ">", " ", "1", "|">>,
      <<"|", "<", "1", "2", "3", ">", "_", " ", "1", "_", " ", "1", "|">>,
      <<"|", "<", "1", "2", "3", ">", "_", "_", " ", "1", "_", "_", " ", "1", "_", " ", "1", "|">>,
      <<"|", "<", "1", "2", "3", ">", "_", ".", " ", "1", "_", "_", " ", "1", "|">>,
      <<"|", "1", "_", " ", "<", "1", "[", "3", "5", "]", "0", ">", ".", "|">>,
      <<"|", "#", "<", "1", "2", "3", ">", "&", " ", "1", "|">>,
      <<"|", "1", " ", "<", "1", "2", "3", ">", "~", "|">>,
      <<"|", "{", "1", "2", "}", " ", "1", "|">>,
      <<"|", "{", "1", "2", "3", "}", "_", " ", "1", "_", " ", "1", "|">>,
      <<"|", "{", "1", "2", "}", "~", " ", "#", "1", "|">>,
      <<"|", "{", "1", "}", "~", " ", "1", "|">>,
      <<"|", "{", "1", "[", "3", "5", "]", "}", "*", " ", "1", "|">>,
      <<"|", "{", "1", "<", "3", "4", "5", ">", "}", "@", " ", "1", "|">>,
      <<"|", "1", " ", "{", "[", "3", "5", "]", "}", "&", "|">>,
      <<"|", "{", "1", "0", "2", "}", " ", "1", "|">>,
      <<"|", "#", "1", " ", "b", "2", "|">>,
      <<"|", "#", "[", "1", "3", "]", "_", " ", "#", "1", "_", " ", "1", "|">>,
      <<"|", "b", "<", "1", "2", "3", ">", " ", "1", "|">>,
      <<"|", "<", "1", "2", ">", " ", "1", "|">>,
      <<"|", "<", "1", "2", "3", "4", ">", " ", "1", "|">>,
      <<"|", "<", ">", " ", "1", "|">>,
      <<"|", "<", "1", ">", " ", "1", "|">>,
      <<"|", "[", "]", " ", "1", "|">>,
      <<"|", "<", "[", "]", "1", "2", ">", " ", "1", "|">>,
      <<"|", "#", "{", "1", "2", "}", " ", "1", "|">>,
      <<"|", "b", "{", "1", "2", "}", "~", " ", "1", "|">>,
      <<"|", "<", "[", "1", "3", "]", "[", "2", "4", "]", "[", "3", "5", "]", ">", " ", "1", "|">>,
      <<"|", "{", "1", "2", "}", ".", " ", "1", "_", "|">>,
      <<"|", "0", " ", "<", "1", "2", "3", ">", "~", "|">>,
      <<"|", "1", " ", "]", " ", "1", "|">>,
      <<"|", "+", "-", "1", " ", "1", "|">>,
      <<"|", "1", " ", "x", "|">>,
      <<"|", "1", "~", "~", " ", "1", "|">>,
      <<"|", "_", " ", "1", " ", "1", "|">>,
      <<"|", "8", " ", "1", "|">>,
      <<"|", "1", " ", "1", "#", "|">>,
      <<"|", "1", " ", "_", " ", "1", "_", " ", "1", "|">>,
      <<"|", "1", "_", " ", "1", "_", " ", "1", "|">>,
      <<"|", "[", "1", " ", "3", "]", " ", "1", "|">>,
      <<"|", "+", " ", "1", " ", "1", "|">>,
      <<"|", "1", "#", " ", "2", "#", "|">>,
      <<"|", "+", "6", " ", "1", "|">>,
      <<"|", "-", "-", "1", " ", "1", "|">>,
      <<"|", "+", "6", " ", "0", "|">>,
      <<"|", "+", "7", " ", "-", "-", "4", "|">>,
      <<"|", "#", "1", "_", " ", "0", "_", " ", "1", "|">>,
      <<"|", "b", "1", "_", " ", "0", "_", "~", " ", "b", "1", "|">>,
      <<"|", "#", "0", " ", "1", "|">>,
      <<"|", "{", "1", "2", "3", "}", "_", "_", " ", "1", "_", "_", " ", "1", "_", " ", "1", "|">>
    }

ScoreExtraLines ==
    {
      <<"|", "4", " ", "0", "|">>,
      <<"|", "#", "1", " ", "1", "|">>,
      <<"|", "1", "~", " ", "1", "|">>
    }

(* the longest duration code of the measures |1<code>| *)
MaxCodeLen == 4

DurationCodes == UNION {[1..n -> {"_", "."}] : n \in 0..MaxCodeLen}

DurationCodeLines == {<<"|", "1">> \o code \o <<"|">> : code \in DurationCodes}

ScoreExtraVoices(n) == UNION {[1..k -> ScoreExtraLines] : k \in 0..n}

ScoreDocs ==
    {h \o <<v>> \o rest : h \in ScoreHeaders, v \in ScoreLines \cup DurationCodeLines,
                         rest \in ScoreExtraVoices(MaxVoices - 1)}

(* the state parse_content reaches on a new parser before it calls         *)
(* _first_pass_validation (lines 189-199), for a document of three lines   *)
(* or more                                                                *)
ScoreInit ==
    /\ doc \in ScoreDocs
    /\ pc = "Header"
    /\ exc = ""
    /\ self = reset_parse_state(FreshSelf)
    /\ measures = <<>>
    /\ mi = 1
    /\ ti = 3
    /\ track_events = <<>>
    /\ merged_events = <<>>
    /\ playback = NoPlayback
    /\ result = <<>>
    /\ validated = FALSE
    /\ track_starts = <<>>
    /\ tokenized = 0
    /\ runs = 1
    /\ leftover = [state |-> FreshSelf.current_sharp_flat_state, errors |-> FALSE]
    /\ player = JX3Player(TRUE)
    /\ play = NoCall
    /\ esc = FALSE

ScoreNext ==
    \/ FirstPassHeader
    \/ ValidateMeasure
    \/ FirstPassEnd
    \/ GenerateTrack
    \/ MergeTracks
    \/ Encode
    \/ Report

ScoreSpec == ScoreInit /\ [][ScoreNext]_vars

(***************************************************************************)
(* The player: one playback at a time on one JX3Player object, as          *)
(* play_data_file runs it (lines 154-158): the countdown, then             *)
(* _execute_playback_data.  stop() is called from another thread and the   *)
(* ESC key is pressed and released by the user, at any moment.  Every      *)
(* call of is_stop_requested is a step of its own, so that a stop request  *)
(* can arrive between a check and the key press that follows it.           *)
(*   play.pc   Idle; Countdown, at check `check` of second `second`;       *)
(*             Loop, at the head of the item loop with i the next item;    *)
(*             Item, after the check of item i; Delay, in the sleep loop   *)
(*             of a delay; DelayEnd, at the check after the sleep loop     *)
(***************************************************************************)
Returns(value) ==
    play' = [play EXCEPT !.pc = "Idle", !.returned = Append(@, value)]

(* a playback is asked of the player: countdown() begins *)
PlayDataFile ==
    /\ play.pc = "Idle"
    /\ Len(play.returned) < MaxCalls
    /\ \E data \in PlayerData :
          play' = [play EXCEPT !.pc = "Countdown", !.data = data,
                               !.second = CountdownSeconds, !.check = 0,
                               !.i = 0, !.remaining_delay = 0, !.pressed = <<>>]
    /\ UNCHANGED <<player, esc, parser_vars>>

(* one check of countdown (lines 109-121): the check at the head of a      *)
(* second, or one of the ten checks each followed by a sleep of 0.1 s;     *)
(* after the last second _execute_playback_data begins and returns False   *)
(* for an empty list (lines 174-176)                                       *)
Countdown ==
    /\ play.pc = "Countdown"
    /\ IF is_stop_requested(player, esc) THEN Returns(FALSE)
       ELSE IF play.check < CountdownChecks
       THEN play' = [play EXCEPT !.check = @ + 1]
       ELSE IF play.second > 1
       THEN play' = [play EXCEPT !.second = @ - 1, !.check = 0]
       ELSE IF play.data = <<>> THEN Returns(FALSE)
       ELSE play' = [play EXCEPT !.pc = "Loop", !.i = 1]
    /\ UNCHANGED <<player, esc, parser_vars>>

(* the head of the item loop (lines 193-197): the loop ends after the      *)
(* last item and the call returns True (lines 234-240)                     *)
LoopCheck ==
    /\ play.pc = "Loop"
    /\ IF play.i > Len(play.data) THEN Returns(TRUE)
       ELSE IF is_stop_requested(player, esc) THEN Returns(FALSE)
       ELSE play' = [play EXCEPT !.pc = "Item"]
    /\ UNCHANGED <<player, esc, parser_vars>>

(* the body of the loop for item i (lines 204-231): a positive number      *)
(* starts the sleep loop, a string has each of its characters pressed,     *)
(* dd.key_press may raise, which ends the item; any other item is skipped  *)
ExecuteItem ==
    /\ play.pc = "Item"
    /\ LET item == play.data[play.i]
       IN  CASE item.kind = "number" ->
                   IF item.delay > 0
                   THEN play' = [play EXCEPT !.pc = "Delay",
                                             !.remaining_delay = item.delay]
                   ELSE play' = [play EXCEPT !.pc = "Loop", !.i = @ + 1]
             [] item.kind = "string" ->
                   \E done \in 0..Len(item.text) :
                       play' = [play EXCEPT !.pc = "Loop", !.i = @ + 1,
                                            !.pressed = @ \o SubSeq(item.text, 1, done)]
             [] OTHER -> play' = [play EXCEPT !.pc = "Loop", !.i = @ + 1]
    /\ UNCHANGED <<player, esc, parser_vars>>

(* one test of the sleep loop (lines 210-213) *)
DelayStep ==
    /\ play.pc = "Delay"
    /\ IF play.remaining_delay > 0 /\ ~is_stop_requested(player, esc)
       THEN play' = [play EXCEPT !.remaining_delay =
                        @ - (IF @ < SleepStep THEN @ ELSE SleepStep)]
       ELSE play' = [play EXCEPT !.pc = "DelayEnd"]
    /\ UNCHANGED <<player, esc, parser_vars>>

(* the check after the sleep loop (lines 215-217) *)
DelayEnd ==
    /\ play.pc = "DelayEnd"
    /\ IF is_stop_requested(player, esc) THEN Returns(FALSE)
       ELSE play' = [play EXCEPT !.pc = "Loop", !.i = @ + 1]
    /\ UNCHANGED <<player, esc, parser_vars>>

(* stop(), from the thread of the user interface *)
Stop ==
    /\ player' = [player EXCEPT !.should_stop = TRUE]
    /\ UNCHANGED <<play, esc, parser_vars>>

(* the user presses or releases ESC *)
PressEsc ==
    /\ ~esc
    /\ esc' = TRUE
    /\ UNCHANGED <<player, play, parser_vars>>

ReleaseEsc ==
    /\ esc
    /\ esc' = FALSE
    /\ UNCHANGED <<player, play, parser_vars>>

(* a player after __init__, with or without the keyboard module, and a     *)
(* parser that is not used                                                 *)
PlayerInit ==
    /\ doc = <<>>
    /\ pc = "Idle"
    /\ exc = ""
    /\ self = FreshSelf
    /\ measures = <<>>
    /\ mi = 1
    /\ ti = 3
    /\ track_events = <<>>
    /\ merged_events = <<>>
    /\ playback = NoPlayback
    /\ result = <<>>
    /\ validated = FALSE
    /\ track_starts = <<>>
    /\ tokenized = 0
    /\ runs = 0
    /\ leftover = [state |-> FreshSelf.current_sharp_flat_state, errors |-> FALSE]
    /\ \E keyboard \in BOOLEAN : player = JX3Player(keyboard)
    /\ play = NoCall
    /\ esc = FALSE

PlayerNext ==
    \/ PlayDataFile
    \/ Countdown
    \/ LoopCheck
    \/ ExecuteItem
    \/ DelayStep
    \/ DelayEnd
    \/ Stop
    \/ PressEsc
    \/ ReleaseEsc

PlayerSpec == PlayerInit /\ [][PlayerNext]_vars

(***************************************************************************)
(* Properties.                                                             *)
(***************************************************************************)
SecondPass == pc \in {"Generating", "Encoding", "Reporting", "Done"}

ConfigErrorKinds == {"bpm_format", "bpm_range", "unsupported_beat"}

(* the header of document d is not a BPM in 1..300 with one of the three   *)
(* supported time signatures                                               *)
InvalidHeader(d) ==
    /\ Len(d) >= 3
    /\ \/ ~PyInt(d[1]).ok
       \/ PyInt(d[1]).value \notin 1..300
       \/ Strip(d[2]) \notin {<<"2", "/", "4">>, <<"3", "/", "4">>, <<"4", "/", "4">>}

(* C1: once the first pass has recorded an error, the second pass is never *)
(* entered, and the run ends with parse_content returning success=False    *)
(* with the error list and no playback data.                               *)
C1_ValidationGate ==
    self.errors # <<>> =>
        /\ ~SecondPass
        /\ ~validated
        /\ Terminal => /\ pc = "Failed"
                       /\ Len(result) = 1
                       /\ ~result[1].success
                       /\ result[1].errors = self.errors

(* the measure text has an error entry of kind syntax naming token tok *)
HasSyntaxError(entry, tok) ==
    \E k \in 1..Len(self.errors) :
        /\ self.errors[k].kind = "syntax"
        /\ self.errors[k].line = entry.line_idx
        /\ self.errors[k].position = entry.part_idx
        /\ (tok # <<>> => self.errors[k].token = tok)

(* C2: no exception leaves the first pass, and when it is over the error   *)
(* list holds an entry for every unmatched bracket and every malformed     *)
(* token of every measure.                                                 *)
C2_ErrorsCollected ==
    /\ ~(pc = "Raised" /\ ~validated)
    /\ (pc = "Failed" /\ Len(doc) >= 3) =>
          \A k \in 1..Len(measures) :
              LET t == tokenize_measure(measures[k].measure)
              IN  /\ t.raised => HasSyntaxError(measures[k], <<>>)
                  /\ \A j \in 1..Len(t.tokens) :
                        ~parse_token(t.tokens[j]).ok
                            => HasSyntaxError(measures[k], t.tokens[j])

AllParse(tokens) == \A j \in 1..Len(tokens) : parse_token(tokens[j]).ok

RECURSIVE TokensDuration(_)
TokensDuration(tokens) ==
    IF tokens = <<>> THEN 0
    ELSE get_token_duration(parse_token(Head(tokens)).node) + TokensDuration(Tail(tokens))

(* the numerator of a time signature n/d, in thousandths of a beat *)
DeclaredBeats(ts) == DigitValue(ts[1]) * 1000

DurationErrors(entry) ==
    {k \in 1..Len(self.errors) :
        /\ self.errors[k].kind = "duration"
        /\ self.errors[k].line = entry.line_idx
        /\ self.errors[k].position = entry.part_idx}

(* measure k has been validated and its tokens all parse *)
Measured(k) ==
    /\ k < mi
    /\ k <= Len(measures)
    /\ ~tokenize_measure(measures[k].measure).raised
    /\ AllParse(tokenize_measure(measures[k].measure).tokens)

MeasureTotal(k) == TokensDuration(tokenize_measure(measures[k].measure).tokens)

(* measure k has no duration error when its total is expected, and one     *)
(* reporting expected and the total when it is off by more than 0.001 beat *)
DurationRule(k, expected) ==
    /\ MeasureTotal(k) = expected => DurationErrors(measures[k]) = {}
    /\ Abs(MeasureTotal(k) - expected) > 1 =>
          \E e \in DurationErrors(measures[k]) :
              /\ self.errors[e].expected = expected
              /\ self.errors[e].actual = MeasureTotal(k)

C5_ValidatedEndsDone ==
    (Terminal /\ validated) =>
        /\ pc = "Done"
        /\ Len(result) = 1
        /\ result[1].success

(* what a caller of parse_content sees of a run, and the counters *)
RunOutcome(p, e, r, me) ==
    [pc |-> p, exc |-> e, result |-> r, errors |-> me.errors, warnings |-> me.warnings,
     total_measures |-> me.total_measures, total_notes |-> me.total_notes]

RECURSIVE FreshValidate(_, _, _)
FreshValidate(me, ms, k) ==
    IF k > Len(ms) THEN [raised |-> FALSE, self |-> me]
    ELSE LET v == validate_measure(me, ms[k])
         IN  IF v.raised THEN v ELSE FreshValidate(v.self, ms, k + 1)

RECURSIVE FreshTracks(_, _, _, _)
FreshTracks(me, d, i, tracks) ==
    IF i > Len(d) THEN [raised |-> FALSE, self |-> me, tracks |-> tracks]
    ELSE LET line == Strip(d[i])
             t == parse_track_timeline(line, beat_duration_of(me.bpm), i - 3,
                                       me.current_sharp_flat_state, me.current_line)
             after == [me EXCEPT !.current_sharp_flat_state = t.state,
                                 !.warnings = @ \o t.warnings]
         IN  IF line = <<>> THEN FreshTracks(me, d, i + 1, tracks)
             ELSE IF t.raised
             THEN [raised |-> TRUE, self |-> after, tracks |-> Append(tracks, t.events)]
             ELSE FreshTracks(after, d, i + 1, Append(tracks, t.events))

FreshSecondPass(me, d) ==
    LET g == FreshTracks(me, d, 3, <<>>)
        pb == generate_final_playback(merge_track_events(g.tracks))
    IN  IF g.raised \/ g.tracks = <<>>
        THEN RunOutcome("Raised", "ValueError", <<>>, g.self)
        ELSE IF pb.total_duration = 0
        THEN RunOutcome("Raised", "ZeroDivisionError", <<>>, g.self)
        ELSE RunOutcome("Done", "", <<success_result(g.self, pb, Len(g.tracks))>>, g.self)

(* the outcome of parsing document d with a parser that has parsed nothing *)
FreshOutcome(d) ==
    LET short == [FreshSelf EXCEPT !.errors =
                     Append(@, ParseError(1, 0, "incomplete", <<>>, 0, 0))]
        header == [check_time_signature(check_bpm(FreshSelf, d), d)
                      EXCEPT !.current_line = Len(d)]
        ms == collect_measures(d, 3)
        v == FreshValidate(header, ms, 1)
        checked == [v.self EXCEPT !.total_measures = Len(ms)]
    IN  IF Len(d) < 3
        THEN RunOutcome("Failed", "", <<create_error_result(short)>>, short)
        ELSE IF v.raised
        THEN RunOutcome("Raised", "ValueError", <<>>, v.self)
        ELSE IF checked.errors # <<>>
        THEN RunOutcome("Failed", "", <<create_error_result(checked)>>, checked)
        ELSE FreshSecondPass(checked, d)

(* C6: whatever the parser parsed before, a finished run of a document     *)
(* has the outcome a parser that never parsed anything gives for it: the   *)
(* same result and playback data, errors, warnings and counters.           *)
C6_NoCarryOver ==
    Terminal => RunOutcome(pc, exc, result, self) = FreshOutcome(doc)

C6_Witness ==
    /\ runs = 2
    /\ pc = "Done"
    /\ leftover.state # FreshSelf.current_sharp_flat_state
    /\ \E i \in 1..Len(result[1].playback_data) :
          result[1].playback_data[i] = KeyItem("+")

(* beats, in thousandths, of the tokens before the k-th of a voice *)
RECURSIVE BeatsBefore(_, _)
BeatsBefore(starts, k) ==
    IF k <= 1 THEN 0 ELSE starts[k - 1].duration + BeatsBefore(starts, k - 1)

(* C7: in every voice the k-th token starts, in microseconds, at the sum   *)
(* of the beat durations of the tokens before it times 60/BPM; the first   *)
(* starts at 0, whatever the kinds of the tokens and wherever the bars.    *)
C7_TokenStartTimes ==
    \A tr \in 1..Len(track_starts) :
        \A k \in 1..Len(track_starts[tr]) :
            track_starts[tr][k].start_time * self.bpm
                = BeatsBefore(track_starts[tr], k) * 60000

C7_Witness ==
    /\ pc = "Done"
    /\ \E tr \in 1..Len(track_starts) :
          /\ Len(track_starts[tr]) >= 4
          /\ track_starts[tr][1].node.kind = "triplet"
          /\ track_starts[tr][2].node.kind = "note"
          /\ track_starts[tr][4].start_time = 1500000
          /\ self.bpm = 120

(* the keys of a sequence of time events, in order *)
EventKeys(events) == [k \in 1..Len(events) |-> events[k].key]

SharpExample == <<"|", "#", "1", " ", "#", "2", " ", "3", "|">>

SuffixSharpExample == <<"|", "1", "#", " ", "2", "#", " ", "3", "|">>

ExampleHeader(d) ==
    /\ Len(d) = 3
    /\ d[1] = <<"1", "2", "0">>
    /\ d[2] = <<"3", "/", "4">>

(* the keys and delays of an encoded playback list, a delay as its number  *)
(* of milliseconds                                                         *)
Encoded(pd) ==
    [k \in 1..Len(pd) |-> IF pd[k].kind = "delay" THEN <<pd[k].delay>>
                          ELSE IF pd[k].kind = "release" THEN <<"release", pd[k].key>>
                          ELSE <<pd[k].key>>]

TogglesOf(pd) == SelectSeq(pd, LAMBDA x : x.kind = "key" /\ x.key \in {"+", "-"})

(* C8 as stated: the voice written 1# 2# 3 is played with '+' pressed      *)
(* once before the first note, no second '+' before the second, and a      *)
(* single '-' before the third.                                            *)
C8_SuffixSharps ==
    (Terminal /\ ExampleHeader(doc) /\ doc[3] = SuffixSharpExample) =>
        /\ pc = "Done"
        /\ TogglesOf(result[1].playback_data) = <<KeyItem("+"), KeyItem("-")>>

(* C8: the voice written #1 #2 3, starting natural, presses '+' once       *)
(* before the first note, no toggle before the second, and a single '-'    *)
(* before the third, which leaves the state natural.                       *)
C8_PrefixSharps ==
    /\ \A tr \in 1..Len(track_starts) :
          (Strip(doc[tr + 2]) = SharpExample
             /\ Len(track_starts[tr]) = 3
             /\ track_starts[tr][1].before = Natural) =>
              /\ EventKeys(track_starts[tr][1].events) = <<"+", "Q">>
              /\ track_starts[tr][1].after = Sharp
              /\ EventKeys(track_starts[tr][2].events) = <<"W">>
              /\ track_starts[tr][2].after = Sharp
              /\ EventKeys(track_starts[tr][3].events) = <<"-", "E">>
              /\ track_starts[tr][3].after = Natural
    /\ (pc = "Done" /\ ExampleHeader(doc) /\ doc[3] = SharpExample) =>
          Encoded(result[1].playback_data)
              = << <<"+">>, <<"Q">>, <<500>>, <<"W">>, <<500>>, <<"-">>, <<"E">> >>

C8_Witness ==
    /\ pc = "Done"
    /\ ExampleHeader(doc)
    /\ doc[3] = SharpExample
    /\ Len(track_starts) = 1
    /\ Len(track_starts[1]) = 3
    /\ track_starts[1][2].before = Sharp

(* the state an accidental character asks for *)
TargetState(accidental) ==
    IF accidental = "#" THEN Sharp ELSE IF accidental = "b" THEN Flat ELSE Natural

(* the toggle key that leads from state `from` to the state of accidental *)
ToggleKey(accidental, from) ==
    IF accidental = "#" THEN "+"
    ELSE IF accidental = "b" THEN "-"
    ELSE IF from.sharp THEN "-" ELSE "+"

(* C9: a chord's events hold exactly one toggle key press, at the chord's  *)
(* start, when the chord's accidental differs from the state before it,    *)
(* and none when it does not; the state after it is the chord's.           *)
C9_ChordToggle ==
    \A tr \in 1..Len(track_starts) :
        \A k \in 1..Len(track_starts[tr]) :
            LET s == track_starts[tr][k]
                accidental == s.node.notes[1].accidental
                toggles == SelectSeq(s.events, LAMBDA e : e.key \in {"+", "-"})
            IN  s.node.kind = "chord" =>
                    /\ s.after = TargetState(accidental)
                    /\ IF s.before = TargetState(accidental)
                       THEN toggles = <<>>
                       ELSE /\ Len(toggles) = 1
                            /\ toggles[1].event_type = "key_press"
                            /\ toggles[1].time = s.start_time
                            /\ toggles[1].key = ToggleKey(accidental, s.before)

(* milliseconds of delay encoded before position p of a playback list *)
RECURSIVE DelayBefore(_, _)
DelayBefore(pd, p) ==
    IF p <= 1 THEN 0
    ELSE (IF pd[p - 1].kind = "delay" THEN pd[p - 1].delay ELSE 0) + DelayBefore(pd, p - 1)

ChordKeys(node) == {note_to_key(node.notes[k].pitch) : k \in 1..Len(node.notes)}

(* chord tokens whose pitches are all distinct *)
DistinctChord(node) ==
    /\ node.kind = "chord"
    /\ Cardinality(ChordKeys(node)) = Len(node.notes)

KeyPresses(events) == SelectSeq(events, LAMBDA e : e.event_type = "key_press")

(* positions i..j of pd hold no delay, lie ms milliseconds after the first *)
(* token and hold a key token for each of keys                             *)
SimultaneousGroup(pd, i, j, ms, keys) ==
    /\ \A p \in i..j : pd[p].kind # "delay"
    /\ DelayBefore(pd, i) = ms
    /\ \A q \in keys : \E p \in i..j : pd[p] = KeyItem(q)

(* positions i..i+n-1 of pd are key tokens of exactly keys, ms             *)
(* milliseconds after the first token                                      *)
AdjacentRun(pd, i, ms, keys) ==
    /\ i + Cardinality(keys) - 1 <= Len(pd)
    /\ DelayBefore(pd, i) = ms
    /\ \A p \in i..(i + Cardinality(keys) - 1) : pd[p].kind = "key"
    /\ {pd[p].key : p \in i..(i + Cardinality(keys) - 1)} = keys

(* the playback list starts with the earliest event: silence before it is  *)
(* not encoded, so a token's place is told by its distance from that event *)
SinceFirstEvent(start_time) == (start_time - merged_events[1].time) \div 1000

(* the tokens of the voices, each with its start time, node and events *)
ChordStarts ==
    UNION {{track_starts[tr][k] : k \in 1..Len(track_starts[tr])} :
              tr \in 1..Len(track_starts)}

(* C10 as stated: a chord of n distinct pitches has n key presses at its   *)
(* start time, and their n encoded tokens stand next to one another with   *)
(* no delay between them.                                                  *)
C10_ChordTokensAdjacent ==
    \A s \in ChordStarts :
        DistinctChord(s.node) =>
            /\ Len(KeyPresses(s.events)) = Len(s.node.notes)
            /\ \A k \in 1..Len(KeyPresses(s.events)) :
                  KeyPresses(s.events)[k].time = s.start_time
            /\ pc \in {"Reporting", "Done"} =>
                  \E i \in 1..Len(playback.playback_data) :
                      AdjacentRun(playback.playback_data, i, SinceFirstEvent(s.start_time),
                                  ChordKeys(s.node))

(* C10: a chord of n distinct pitches has n key presses, of its n keys,    *)
(* all at its start time, and their encoded tokens lie in one group of     *)
(* simultaneous tokens with no delay between any two of them; tokens of    *)
(* other voices sounding at that instant may stand among them.             *)
C10_ChordTokensTogether ==
    \A s \in ChordStarts :
        DistinctChord(s.node) =>
            /\ Len(KeyPresses(s.events)) = Len(s.node.notes)
            /\ \A k \in 1..Len(KeyPresses(s.events)) :
                  /\ KeyPresses(s.events)[k].time = s.start_time
                  /\ KeyPresses(s.events)[k].key = note_to_key(s.node.notes[k].pitch)
            /\ pc \in {"Reporting", "Done"} =>
                  \E i \in 1..Len(playback.playback_data) :
                      \E j \in i..Len(playback.playback_data) :
                          SimultaneousGroup(playback.playback_data, i, j,
                                            SinceFirstEvent(s.start_time), ChordKeys(s.node))

C10_Witness ==
    /\ pc = "Done"
    /\ Len(track_starts) = 2
    /\ \E s \in ChordStarts :
          /\ DistinctChord(s.node)
          /\ Len(s.node.notes) = 3
          /\ \A i \in 1..Len(playback.playback_data) :
                ~AdjacentRun(playback.playback_data, i, SinceFirstEvent(s.start_time),
                             ChordKeys(s.node))

(* every token the second pass has generated, with its start time,         *)
(* duration, node and events                                               *)
TokenRecords ==
    UNION {{track_starts[tr][k] : k \in 1..Len(track_starts[tr])} :
              tr \in 1..Len(track_starts)}

(* the events that press a note key, as <<key, time>> pairs in order *)
NotePresses(events) ==
    LET presses == SelectSeq(events, LAMBDA e : e.event_type = "key_press"
                                                /\ e.key \in NoteKeys)
    IN  [k \in 1..Len(presses) |-> <<presses[k].key, presses[k].time>>]

(* the keys of the sounding notes of a note or chord, paired with time t *)
RECURSIVE SoundingAt(_, _)
SoundingAt(notes, t) ==
    IF notes = <<>> THEN <<>>
    ELSE (IF Head(notes).pitch \in 1..7
          THEN << <<note_to_key(Head(notes).pitch), t>> >> ELSE <<>>)
         \o SoundingAt(Tail(notes), t)

ElementAt(element, t) ==
    IF element.kind = "chord" THEN SoundingAt(element.notes, t)
    ELSE SoundingAt(<<element>>, t)

(* the span of a token in whole milliseconds: beats times 60/BPM, cut *)
WholeMillis(duration) == (duration * 60) \div self.bpm

(* C11: a triplet whose span is T whole milliseconds is divided into the  *)
(* spans floor(T/3), floor(T/3) and floor(T/3) + (T mod 3), which sum to   *)
(* T, and its three elements are pressed at 0, the first span and the sum  *)
(* of the first two spans after the start of the triplet.                  *)
C11_TripletSpans ==
    \A s \in TokenRecords :
        s.node.kind = "triplet" =>
            LET T  == WholeMillis(s.duration)
                nd == triplet_note_durations(s.node, beat_duration_of(self.bpm))
            IN  /\ nd = <<T \div 3, T \div 3, (T \div 3) + (T % 3)>>
                /\ nd[1] + nd[2] + nd[3] = T
                /\ NotePresses(s.events)
                     = ElementAt(s.node.notes[1], s.start_time)
                       \o ElementAt(s.node.notes[2], s.start_time + 1000 * (T \div 3))
                       \o ElementAt(s.node.notes[3],
                                    s.start_time + 1000 * ((T \div 3) + (T \div 3)))

(* a sixteenth triplet at 150 BPM spans 100 ms: 33 + 33 + 34 *)
C11_Witness ==
    /\ pc = "Done"
    /\ \E s \in TokenRecords :
          /\ s.node.kind = "triplet"
          /\ WholeMillis(s.duration) = 100
          /\ triplet_note_durations(s.node, beat_duration_of(self.bpm)) = <<33, 33, 34>>
          /\ NotePresses(s.events) = << <<"Q", 0>>, <<"W", 33000>>, <<"E", 66000>> >>

(* the presses of grace notes played 50 ms apart from time t on *)
RECURSIVE GraceAt(_, _)
GraceAt(notes, t) ==
    IF notes = <<>> THEN <<>>
    ELSE SoundingAt(<<Head(notes)>>, t) \o GraceAt(Tail(notes), t + 50000)

(* the presses of a note, chord or triplet generated with start time t *)
MainAt(main, t) ==
    IF main.kind = "triplet"
    THEN LET T == WholeMillis(get_token_duration(main))
         IN  ElementAt(main.notes[1], t)
             \o ElementAt(main.notes[2], t + 1000 * (T \div 3))
             \o ElementAt(main.notes[3], t + 1000 * ((T \div 3) + (T \div 3)))
    ELSE ElementAt(main, t)

(* C12: a grace token that starts at time s with g grace notes presses     *)
(* its i-th grace note (from 0) at s + i * 50 ms, in order, and then its   *)
(* main element as a note, chord or triplet that starts at s + g * 50 ms.  *)
C12_GraceTiming ==
    \A s \in TokenRecords :
        s.node.kind = "grace" =>
            NotePresses(s.events)
              = GraceAt(s.node.grace_notes, s.start_time)
                \o MainAt(s.node.main_note,
                          s.start_time + Len(s.node.grace_notes) * 50000)

C12_Witness ==
    /\ pc = "Done"
    /\ \E s \in TokenRecords :
          /\ s.node.kind = "grace"
          /\ Len(s.node.grace_notes) = 2
          /\ NotePresses(s.events) = << <<"Q", 0>>, <<"W", 50000>>, <<"E", 100000>> >>

(* the events of one type among a token's events *)
EventsOfType(events, type) == SelectSeq(events, LAMBDA e : e.event_type = type)

(* C13: a token whose node carries a modifier emits exactly one            *)
(* modifier_press for the modifier's key at the token's start time and     *)
(* exactly one modifier_release for that key 1 ms later; a token whose     *)
(* node carries no modifier emits neither.                                 *)
C13_ModifierBracket ==
    \A s \in TokenRecords :
        LET presses  == EventsOfType(s.events, "modifier_press")
            releases == EventsOfType(s.events, "modifier_release")
        IN  IF s.node.modifier \in ModifierChars
            THEN /\ Len(presses) = 1
                 /\ presses[1].key = modifier_keys(s.node.modifier)
                 /\ presses[1].time = s.start_time
                 /\ Len(releases) = 1
                 /\ releases[1].key = modifier_keys(s.node.modifier)
                 /\ releases[1].time = s.start_time + 1000
            ELSE presses = <<>> /\ releases = <<>>

(* the names of the modifier keys *)
ModifierKeyNames == {modifier_keys(m) : m \in ModifierChars}

(* the class of a key token: 0 modifier press, 1 key press, 2 release *)
TokenClass(item) ==
    IF item.kind = "release" THEN 2
    ELSE IF item.key \in ModifierKeyNames THEN 0 ELSE 1

(* positions i < j of the playback data hold tokens with no delay number   *)
(* from i to j: the two tokens belong to one simultaneous group            *)
InOneGroup(pd, i, j) ==
    /\ i < j
    /\ \A k \in i..j : pd[k].kind # "delay"

(* the priority the claim gives to the event types *)
ClaimedPriority(e) ==
    IF e.event_type = "modifier_press" THEN 0
    ELSE IF e.event_type = "key_press" THEN 1 ELSE 2

PlaybackEncoded == pc \in {"Reporting", "Done"}

(* C14 as stated, for the merged sequence itself: the sequence returned    *)
(* by _merge_track_events is ordered by (time, priority, key name).        *)
C14_MergedOrder ==
    pc \in {"Encoding", "Reporting", "Done"} =>
        \A k \in 1..(Len(merged_events) - 1) :
            LET a == merged_events[k]
                b == merged_events[k + 1]
            IN  \/ a.time < b.time
                \/ a.time = b.time /\ ClaimedPriority(a) < ClaimedPriority(b)
                \/ /\ a.time = b.time
                   /\ ClaimedPriority(a) = ClaimedPriority(b)
                   /\ KeyRank(a.key) <= KeyRank(b.key)

(* C14: the merged sequence is ordered by time; in the encoded output,     *)
(* inside every simultaneous group, the modifier press tokens come first,  *)
(* then the key press tokens, then the release tokens, and each class is   *)
(* sorted by key name, however many voices contributed the events and in   *)
(* whatever order.                                                         *)
C14_GroupOrder ==
    /\ pc \in {"Encoding", "Reporting", "Done"} =>
          \A k \in 1..(Len(merged_events) - 1) :
              merged_events[k].time <= merged_events[k + 1].time
    /\ PlaybackEncoded =>
        \A i, j \in 1..Len(playback.playback_data) :
            InOneGroup(playback.playback_data, i, j) =>
                LET a == playback.playback_data[i]
                    b == playback.playback_data[j]
                IN  \/ TokenClass(a) < TokenClass(b)
                    \/ /\ TokenClass(a) = TokenClass(b)
                       /\ KeyRank(a.key) <= KeyRank(b.key)

(* two voices press different modifiers and the same key at one instant *)
C14_Witness ==
    /\ pc = "Done"
    /\ Len(track_events) = 2
    /\ Len(playback.playback_data) >= 5
    /\ [k \in 1..5 |-> <<playback.playback_data[k].kind, playback.playback_data[k].key>>]
         = << <<"key", "up_arrow">>, <<"key", "down_arrow">>, <<"key", "Q">>,
              <<"release", "up_arrow">>, <<"release", "down_arrow">> >>

(* the times of the simultaneous groups of a merged sequence: the time of  *)
(* the first event, and of every event the grouping test sets apart from   *)
(* the group before it                                                     *)
RECURSIVE GroupTimesFrom(_, _)
GroupTimesFrom(events, times) ==
    IF events = <<>> THEN times
    ELSE IF times = <<>> \/ exceeds_tolerance(Head(events).time, Last(times))
    THEN GroupTimesFrom(Tail(events), Append(times, Head(events).time))
    ELSE GroupTimesFrom(Tail(events), times)

GroupTimes == GroupTimesFrom(merged_events, <<>>)

(* the number of delay numbers before position p of the playback data *)
DelaysBefore(pd, p) == Len(SelectSeq(SubSeq(pd, 1, p - 1), LAMBDA x : x.kind = "delay"))

(* the time, in microseconds, of the group that holds position p of the    *)
(* playback data: groups and delay numbers alternate                       *)
GroupTime(pd, p) == GroupTimes[1 + DelaysBefore(pd, p)]

(* position p of the playback data holds the token of event e: the token   *)
(* is e's key, as a press or as a release, in the group e's time falls in  *)
TokenOf(pd, p, e) ==
    /\ pd[p] = (IF e.event_type = "modifier_release" THEN ReleaseItem(e.key)
                ELSE KeyItem(e.key))
    /\ GroupTime(pd, p) <= e.time
    /\ e.time <= GroupTime(pd, p) + 1000

(* no delay number stands between positions p and q *)
NoDelayBetween(pd, p, q) ==
    \A k \in (IF p < q THEN p ELSE q)..(IF p < q THEN q ELSE p) : pd[k].kind # "delay"

(* C15: two merged events whose times differ by at most 1 ms have their    *)
(* tokens in one simultaneous group, with no delay number between them;    *)
(* two events whose times differ by more than 1 ms have their tokens in    *)
(* different groups.                                                       *)
C15_GroupingByTime ==
    PlaybackEncoded =>
        \A a, b \in 1..Len(merged_events) :
            a < b =>
                LET pd == playback.playback_data
                    ea == merged_events[a]
                    eb == merged_events[b]
                IN  IF Abs(ea.time - eb.time) <= 1000
                    THEN \E p, q \in 1..Len(pd) :
                            /\ TokenOf(pd, p, ea)
                            /\ TokenOf(pd, q, eb)
                            /\ NoDelayBetween(pd, p, q)
                    ELSE \A p, q \in 1..Len(pd) :
                            TokenOf(pd, p, ea) /\ TokenOf(pd, q, eb)
                                => ~NoDelayBetween(pd, p, q)

PressEvent(e) == e.event_type \in {"key_press", "modifier_press"}

(* C16: within one simultaneous group the encoded output holds each        *)
(* pressed key at most once, and every press of the merged sequence has    *)
(* exactly one token, also when several voices or several notes of a       *)
(* chord press the same key at the same instant.                           *)
C16_OneTokenPerKey ==
    PlaybackEncoded =>
        LET pd == playback.playback_data
        IN  /\ \A i, j \in 1..Len(pd) :
                  InOneGroup(pd, i, j) /\ pd[i].kind = "key" /\ pd[j].kind = "key"
                      => pd[i].key # pd[j].key
            /\ \A a \in 1..Len(merged_events) :
                  PressEvent(merged_events[a]) =>
                      Cardinality({p \in 1..Len(pd) : TokenOf(pd, p, merged_events[a])}) = 1

(* two voices press the same key at the same instant, and one chord        *)
(* presses a key twice                                                     *)
C16_Witness ==
    /\ pc = "Done"
    /\ \E a, b \in 1..Len(merged_events) :
          /\ a < b
          /\ merged_events[a].event_type = "key_press"
          /\ merged_events[b].event_type = "key_press"
          /\ merged_events[a].key = merged_events[b].key
          /\ merged_events[a].time = merged_events[b].time
          /\ merged_events[a].track_id # merged_events[b].track_id
    /\ \E a, b \in 1..Len(merged_events) :
          /\ a < b
          /\ merged_events[a].event_type = "key_press"
          /\ merged_events[b] = merged_events[a]

(* the delay numbers of the playback data, in order, in milliseconds *)
DelaysOf(pd) ==
    LET delays == SelectSeq(pd, LAMBDA x : x.kind = "delay")
    IN  [k \in 1..Len(delays) |-> delays[k].delay]

(* ms milliseconds is the span of us microseconds rounded to 3 decimals *)
RoundedTo3(ms, us) == 2 * Abs(1000 * ms - us) <= 1000

(* C17: the playback data never starts or ends with a number and never     *)
(* holds two numbers in a row; between the tokens of two consecutive       *)
(* groups stands exactly one number, strictly positive, the time of the    *)
(* later group minus the time of the earlier one rounded to 3 decimals.    *)
C17_Alternation ==
    PlaybackEncoded =>
        LET pd == playback.playback_data
        IN  /\ pd # <<>> => pd[1].kind # "delay" /\ pd[Len(pd)].kind # "delay"
            /\ \A k \in 1..(Len(pd) - 1) :
                  ~(pd[k].kind = "delay" /\ pd[k + 1].kind = "delay")
            /\ Len(DelaysOf(pd)) = Len(GroupTimes) - 1
            /\ \A k \in 1..Len(DelaysOf(pd)) :
                  /\ DelaysOf(pd)[k] > 0
                  /\ RoundedTo3(DelaysOf(pd)[k], GroupTimes[k + 1] - GroupTimes[k])

(* four groups or more, the first one after a silence, with unequal delays *)
C17_Witness ==
    /\ pc = "Done"
    /\ Len(GroupTimes) >= 4
    /\ GroupTimes[1] > 0
    /\ DelaysOf(playback.playback_data)[1] # DelaysOf(playback.playback_data)[2]

(* the press and release tokens of one key, in order *)
TokensOfKey(pd, key) == SelectSeq(pd, LAMBDA x : x.kind # "delay" /\ x.key = key)

(* C18: for every modifier key, its press tokens and its release tokens    *)
(* alternate strictly in the encoded playback data, starting with a press  *)
(* and ending with a release, so that every press is closed by exactly     *)
(* one release before the next press of that key.                          *)
C18_ModifierHolds ==
    PlaybackEncoded =>
        \A key \in ModifierKeyNames :
            LET q == TokensOfKey(playback.playback_data, key)
            IN  /\ Len(q) % 2 = 0
                /\ \A k \in 1..Len(q) :
                      q[k].kind = (IF k % 2 = 1 THEN "key" ELSE "release")

(* the first pass has validated every measure and returned *)
FirstPassDone == pc \in {"Failed", "Generating", "Encoding", "Reporting", "Done"}

(* the tokens of the validated measures *)
MeasureTokens ==
    UNION {{tokenize_measure(measures[k].measure).tokens[n] :
               n \in 1..Len(tokenize_measure(measures[k].measure).tokens)} :
           k \in 1..Len(measures)}

(* a token written as a triplet, with or without an accidental before it *)
TripletToken(tk) ==
    \/ Len(tk) >= 2 /\ tk[1] = "<"
    \/ Len(tk) >= 3 /\ tk[1] \in {"#", "b"} /\ tk[2] = "<"

(* the number of elements written between the angle brackets: a chord     *)
(* counts once, every pitch digit outside a chord counts once              *)
RECURSIVE CountElements(_, _)
CountElements(text, in_chord) ==
    IF text = <<>> \/ Head(text) = ">" THEN 0
    ELSE IF Head(text) = "[" THEN 1 + CountElements(Tail(text), TRUE)
    ELSE IF Head(text) = "]" THEN CountElements(Tail(text), FALSE)
    ELSE IF ~in_chord /\ Head(text) \in {"0", "1", "2", "3", "4", "5", "6", "7"}
    THEN 1 + CountElements(Tail(text), in_chord)
    ELSE CountElements(Tail(text), in_chord)

TripletSize(tk) ==
    CountElements(SubSeq(tk, (IF tk[1] = "<" THEN 2 ELSE 3), Len(tk)), FALSE)

(* the token holds a chord with nothing between its brackets *)
HasEmptyChord(tk) == \E k \in 1..(Len(tk) - 1) : tk[k] = "[" /\ tk[k + 1] = "]"

SyntaxErrorFor(tk) == \E k \in 1..Len(self.errors) :
                          self.errors[k].kind = "syntax" /\ self.errors[k].token = tk

(* C19, the part about the number of elements: a triplet token is          *)
(* accepted exactly if it holds three elements; with fewer or more the     *)
(* first pass records a syntax error for it and the document fails.        *)
C19_TripletSize ==
    FirstPassDone =>
        \A tk \in MeasureTokens :
            TripletToken(tk) =>
                IF TripletSize(tk) = 3
                THEN ~SyntaxErrorFor(tk)
                ELSE SyntaxErrorFor(tk) /\ pc = "Failed" /\ ~validated

(* C19: a triplet is accepted only with exactly three elements, and an     *)
(* empty chord is a parse error: a token with an empty chord or a triplet  *)
(* of another size gets a syntax error and fails the document.             *)
C19_TripletAndEmptyChord ==
    /\ C19_TripletSize
    /\ FirstPassDone =>
          \A tk \in MeasureTokens :
              HasEmptyChord(tk) => SyntaxErrorFor(tk) /\ pc = "Failed" /\ ~validated

(* the words of a measure, as written between spaces *)
MeasureWords(measure) == Split(measure, " ")

(* a word that is an accidental followed by a note or by a chord, grace    *)
(* or triplet group                                                        *)
PrefixedWord(w) ==
    /\ Len(w) >= 2
    /\ w[1] \in {"#", "b"}
    /\ w[2] \in {"1", "2", "3", "4", "5", "6", "7", "[", "{", "<"}

(* a note, chord or triplet node carries the accidental *)
CarriesPlain(node, accidental) ==
    CASE node.kind = "note" -> node.accidental = accidental
      [] node.kind = "chord" ->
            \A k \in 1..Len(node.notes) : node.notes[k].accidental = accidental
      [] node.kind = "triplet" -> node.accidental = accidental
      [] OTHER -> FALSE

Carries(node, accidental) ==
    IF node.kind = "grace"
    THEN /\ \A k \in 1..Len(node.grace_notes) :
               node.grace_notes[k].accidental = accidental
         /\ CarriesPlain(node.main_note, accidental)
    ELSE CarriesPlain(node, accidental)

(* C20: an accidental written before a note or before a chord, grace or    *)
(* triplet group stays attached to it: the tokenizer returns the           *)
(* accidental, the note or group and its trailing duration and modifier    *)
(* characters as one token, and the node parsed from it carries the        *)
(* accidental.                                                             *)
C20_PrefixAttaches ==
    FirstPassDone =>
        \A k \in 1..Len(measures) :
            \A n \in 1..Len(MeasureWords(measures[k].measure)) :
                LET w == MeasureWords(measures[k].measure)[n]
                    t == tokenize_measure(measures[k].measure)
                IN  PrefixedWord(w) =>
                        /\ ~t.raised
                        /\ \E m \in 1..Len(t.tokens) : t.tokens[m] = w
                        /\ parse_token(w).ok
                        /\ Carries(parse_token(w).node, w[1])
                        /\ ~SyntaxErrorFor(<<w[1]>>)

(* a token with octave markers of both directions *)
MixedOctave(tk) == Contains(tk, "+") /\ Contains(tk, "-")

(* C21: text in a measure that forms no valid token is a syntax error: in  *)
(* every measure the tokenizer does not reject as a whole, the tokens put  *)
(* together are the measure without its spaces, so that no character is    *)
(* dropped, and every token that does not parse, or that mixes octave      *)
(* markers of both directions, has a syntax error naming it.               *)
C21_StrayTextIsError ==
    FirstPassDone =>
        \A k \in 1..Len(measures) :
            LET t == tokenize_measure(measures[k].measure)
            IN  ~t.raised =>
                    /\ Concat(t.tokens) = RemoveSpaces(measures[k].measure)
                    /\ \A n \in 1..Len(t.tokens) :
                           (~parse_token(t.tokens[n]).ok \/ MixedOctave(t.tokens[n]))
                               => SyntaxErrorFor(t.tokens[n])

(* the part of C21 the code keeps: a token the tokenizer returns and the   *)
(* parser rejects has a syntax error naming it, and the document fails.    *)
C21_RejectedTokenIsError ==
    FirstPassDone =>
        \A tk \in MeasureTokens :
            ~parse_token(tk).ok => SyntaxErrorFor(tk) /\ pc = "Failed" /\ ~validated

(* the document with the spaces of its voice lines deleted *)
WithoutSpaces(d) ==
    [i \in 1..Len(d) |-> IF i >= 3 THEN RemoveSpaces(d[i]) ELSE d[i]]

(* C22: the spaces of a measure do not matter: a finished run of a         *)
(* document ends as the run of the same document with every space of its   *)
(* voice lines deleted does, with the same validation result and, on       *)
(* success, the same playback data.                                        *)
C22_SpacesDoNotMatter ==
    Terminal =>
        LET o == FreshOutcome(WithoutSpaces(doc))
        IN  /\ o.pc = pc
            /\ pc = "Done" => o.result[1].playback_data = result[1].playback_data

(* the part of C23 about validation: a document for which the first pass   *)
(* recorded warnings and no error passes validation, and the error count   *)
(* of a failed document counts its errors only.                            *)
C23_WarningsPassValidation ==
    /\ (FirstPassDone /\ self.warnings # <<>> /\ self.errors = <<>>) => validated
    /\ (pc = "Failed" /\ result # <<>>) =>
           /\ result[1].error_count = Len(result[1].errors)
           /\ result[1].errors # <<>>

(* C23: warnings never block success: a document whose only findings are   *)
(* warnings passes validation, and its run ends with a success result      *)
(* that holds playback data.                                               *)
C23_WarningsNeverBlock ==
    /\ C23_WarningsPassValidation
    /\ (Terminal /\ validated /\ self.warnings # <<>>) =>
           /\ pc = "Done"
           /\ result[1].success
           /\ result[1].playback_data # <<>>

(* a measure that is the single note 1 followed by a duration code *)
SingleNoteMeasure(measure) ==
    /\ Len(measure) >= 1
    /\ measure[1] = "1"
    /\ \A n \in 2..Len(measure) : measure[n] \in {"_", "."}

(* the beat durations, in thousandths, the table allows for a duration     *)
(* code: the table has rows for no, one and two underscores, each with     *)
(* and without a dot; a code with more underscores must at least give one  *)
(* of the values of the table, and a dotted value if it holds a dot        *)
TableDurations(code) ==
    LET us == CountChar(code, "_")
    IN  IF Contains(code, ".")
        THEN CASE us = 0 -> {1500}
               [] us = 1 -> {750}
               [] us = 2 -> {375}
               [] OTHER -> {750, 375}
        ELSE CASE us = 0 -> {1000}
               [] us = 1 -> {500}
               [] us = 2 -> {250}
               [] OTHER -> {1000, 500, 250, 1500, 750, 375}

(* the total the first pass computed for the k-th measure, taken from its  *)
(* duration error                                                          *)
MeasuredDurations(k) ==
    {self.errors[e].actual : e \in {e \in 1..Len(self.errors) :
        /\ self.errors[e].kind = "duration"
        /\ self.errors[e].line = measures[k].line_idx
        /\ self.errors[e].position = measures[k].part_idx}}

(* C24: the beat duration of a token follows the table of duration codes   *)
(* for every code over '_' and '.': a measure of two beats that holds the  *)
(* single note 1 with a duration code is rejected with a duration error    *)
(* whose actual total is the value of the table for the code.              *)
C24_DurationTable ==
    FirstPassDone =>
        \A k \in 1..Len(measures) :
            SingleNoteMeasure(measures[k].measure) =>
                /\ MeasuredDurations(k) # {}
                /\ MeasuredDurations(k) \subseteq TableDurations(Tail(measures[k].measure))

(* the rows of the table of C24: the same for codes of at most two         *)
(* underscores                                                             *)
C24_TableRows ==
    FirstPassDone =>
        \A k \in 1..Len(measures) :
            (SingleNoteMeasure(measures[k].measure)
               /\ CountChar(measures[k].measure, "_") <= 2) =>
                /\ MeasuredDurations(k) # {}
                /\ MeasuredDurations(k) \subseteq TableDurations(Tail(measures[k].measure))

(* the accidental state the first tr generated voices leave: the state     *)
(* after the last token of the last of them that has a token, natural if   *)
(* there is none                                                           *)
RECURSIVE StateAfterVoice(_)
StateAfterVoice(tr) ==
    IF tr = 0 THEN Natural
    ELSE IF track_starts[tr] = <<>> THEN StateAfterVoice(tr - 1)
    ELSE Last(track_starts[tr]).after

(* C25: the accidental state is shared by the voices in the order of the   *)
(* document: the first voice starts natural, every later voice starts in   *)
(* the state the voice before it ended in, the parser's state after a      *)
(* voice is the state its last token left, and so a voice that follows a   *)
(* voice ending sharp presses no '+' for a sharp first note.               *)
C25_SharedAccidentalState ==
    /\ \A tr \in 1..Len(track_starts) :
          \A k \in 1..Len(track_starts[tr]) :
              track_starts[tr][k].before =
                  IF k = 1 THEN StateAfterVoice(tr - 1)
                  ELSE track_starts[tr][k - 1].after
    /\ self.current_sharp_flat_state = StateAfterVoice(Len(track_starts))
    /\ \A tr \in 2..Len(track_starts) :
          (/\ track_starts[tr] # <<>>
           /\ StateAfterVoice(tr - 1) = Sharp
           /\ track_starts[tr][1].node.kind = "note"
           /\ track_starts[tr][1].node.accidental = "#"
           /\ ~track_starts[tr][1].node.is_rest) =>
              /\ ~Contains(EventKeys(track_starts[tr][1].events), "+")
              /\ ~Contains(EventKeys(track_starts[tr][1].events), "-")

C25_Witness ==
    /\ pc = "Done"
    /\ Len(track_starts) = 2
    /\ track_starts[1] # <<>>
    /\ Last(track_starts[1]).after = Sharp
    /\ track_starts[2][1].before = Sharp
    /\ track_starts[2][1].node.accidental = "#"
    /\ EventKeys(track_starts[2][1].events) = <<"Q">>
    /\ Len(TogglesOf(result[1].playback_data)) = 2

(* the token of a voice is a rest *)
RestToken(s) == s.node.kind = "note" /\ s.node.is_rest

(* C26: a rest emits nothing, in every accidental state and with or        *)
(* without a modifier: the token of a rest has no event, leaves the        *)
(* accidental state as it found it, and the token after it starts the      *)
(* rest's duration later.                                                  *)
C26_RestIsSilent ==
    \A tr \in 1..Len(track_starts) :
        \A k \in 1..Len(track_starts[tr]) :
            LET s == track_starts[tr][k]
            IN  RestToken(s) =>
                    /\ s.events = <<>>
                    /\ s.after = s.before
                    /\ s.duration > 0
                    /\ k < Len(track_starts[tr]) =>
                          track_starts[tr][k + 1].start_time =
                              s.start_time
                                + SpanMicros(s.duration, beat_duration_of(self.bpm))

C26_Witness ==
    /\ pc = "Done"
    /\ \E tr \in 1..Len(track_starts) :
          \E k \in 2..(Len(track_starts[tr]) - 1) :
              /\ RestToken(track_starts[tr][k])
              /\ track_starts[tr][k].node.modifier # ""
              /\ track_starts[tr][k].before = Flat
              /\ track_starts[tr][k + 1].start_time > track_starts[tr][k].start_time
              /\ EventKeys(track_starts[tr][k + 1].events) = <<"Q">>
    /\ \A i \in 1..Len(result[1].playback_data) :
          result[1].playback_data[i].kind = "key" =>
              result[1].playback_data[i].key \in {"-", "+", "Q"}

(* a stop request is pending: stop() was called, or ESC is down and the    *)
(* player has a keyboard module to see it                                  *)
StopPending == player.should_stop \/ (player.keyboard /\ esc)

(* the step is a step of the playback call, and the step ends the call *)
PlaybackSteps == play' # play

PlaybackReturns(value) ==
    /\ Len(play'.returned) = Len(play.returned) + 1
    /\ Last(play'.returned) = value

(* the step hands a key to dd.key_press *)
KeyPressed == play'.pressed # play.pressed /\ play'.pressed # <<>>

(* the playback call is at a call of is_stop_requested whose answer True   *)
(* ends the call: a check of the countdown, the check at the head of the   *)
(* item loop, the check after the sleep loop of a delay                    *)
AtStopCheck ==
    \/ play.pc \in {"Countdown", "DelayEnd"}
    \/ play.pc = "Loop" /\ play.i <= Len(play.data)

(* C27 as stated: once stop() has been called, at whatever point of the    *)
(* item loop or of a delay, no further key is pressed and the call         *)
(* returns False; the flag is never cleared.                               *)
C27_StopEndsPlayback ==
    [][/\ player.should_stop => player'.should_stop
       /\ player.should_stop => ~KeyPressed
       /\ player.should_stop => ~PlaybackReturns(TRUE)]_vars

(* C27: a playback returns True only at the end of the item loop of a      *)
(* list that is not empty, after the check of every item found no stop     *)
(* request.  A stop request that is pending at a check ends the call       *)
(* there: it returns False and presses nothing; one that is pending at a   *)
(* test of the sleep loop of a delay ends the sleep.  After stop() a key   *)
(* is pressed only for the item whose check came before the stop, the     *)
(* flag is never cleared, and a playback that begins with the flag set    *)
(* returns False at its first check.                                       *)
C27_ObservedStopEndsPlayback ==
    [][/\ player.should_stop => player'.should_stop
       /\ PlaybackReturns(TRUE) =>
              /\ play.pc = "Loop"
              /\ play.data # <<>>
              /\ play.i = Len(play.data) + 1
       /\ (PlaybackSteps /\ AtStopCheck /\ StopPending) =>
              /\ PlaybackReturns(FALSE)
              /\ play'.pressed = play.pressed
       /\ (PlaybackSteps /\ play.pc = "Delay" /\ StopPending) =>
              /\ play'.pc = "DelayEnd"
              /\ play'.pressed = play.pressed
       /\ (player.should_stop /\ KeyPressed) => play.pc = "Item"]_vars

(* a playback ran to its end, and stop() interrupted the next one between  *)
(* its two keys                                                            *)
C27_Witness ==
    /\ player.should_stop
    /\ ~esc
    /\ play.pc = "Idle"
    /\ play.returned = <<TRUE, FALSE>>
    /\ play.data = <<StringItem(<<"Q">>), NumberItem(25), StringItem(<<"W">>)>>
    /\ play.pressed = <<"Q">>

(* the number of '+' presses minus the number of '-' presses among events *)
NetToggles(events) ==
    Len(SelectSeq(events, LAMBDA e : e.event_type = "key_press" /\ e.key = "+"))
      - Len(SelectSeq(events, LAMBDA e : e.event_type = "key_press" /\ e.key = "-"))

(* the net toggles of the first k tokens of voice tr, and of those and of  *)
(* all the voices before it                                                *)
RECURSIVE NetOfVoice(_, _)
NetOfVoice(tr, k) ==
    IF k = 0 THEN 0
    ELSE NetOfVoice(tr, k - 1) + NetToggles(track_starts[tr][k].events)

RECURSIVE NetThrough(_, _)
NetThrough(tr, k) ==
    IF tr = 0 THEN 0
    ELSE NetThrough(tr - 1, IF tr = 1 THEN 0 ELSE Len(track_starts[tr - 1]))
           + NetOfVoice(tr, k)

(* what the tracked state says the net count is *)
StateOffset(state) == IF state.sharp THEN 1 ELSE IF state.flat THEN 0 - 1 ELSE 0

(* C28: the tracked accidental state matches the toggles emitted so far:   *)
(* after every token the number of '+' presses minus the number of '-'     *)
(* presses is 1 when the state is sharp, -1 when it is flat and 0 when it  *)
(* is natural, and the two flags are never both true.                      *)
C28_StateMatchesToggles ==
    \A tr \in 1..Len(track_starts) :
        \A k \in 1..Len(track_starts[tr]) :
            /\ ~(track_starts[tr][k].after.sharp /\ track_starts[tr][k].after.flat)
            /\ NetThrough(tr, k) = StateOffset(track_starts[tr][k].after)

(* the part of C28 about the flags *)
C28_FlagsExclusive ==
    /\ ~(self.current_sharp_flat_state.sharp /\ self.current_sharp_flat_state.flat)
    /\ \A tr \in 1..Len(track_starts) :
          \A k \in 1..Len(track_starts[tr]) :
              ~(track_starts[tr][k].after.sharp /\ track_starts[tr][k].after.flat)

(* every key press of the k-th token of voice tr is earlier than the       *)
(* start of the token after it                                             *)
EndsBeforeNext(tr, k) ==
    \A n \in 1..Len(track_starts[tr][k].events) :
        track_starts[tr][k].events[n].event_type = "key_press" =>
            track_starts[tr][k].events[n].time < track_starts[tr][k + 1].start_time

(* C29: within a voice the events of successive tokens do not overlap:     *)
(* every key press of a token, the main element of a grace token and the   *)
(* second and third element of a triplet included, is strictly earlier     *)
(* than the start of the next token.                                       *)
C29_TokensDoNotOverlap ==
    \A tr \in 1..Len(track_starts) :
        \A k \in 1..(Len(track_starts[tr]) - 1) : EndsBeforeNext(tr, k)

(* the part of C29 the code keeps: the same for notes, chords and          *)
(* triplets                                                                *)
C29_PlainTokensDoNotOverlap ==
    \A tr \in 1..Len(track_starts) :
        \A k \in 1..(Len(track_starts[tr]) - 1) :
            track_starts[tr][k].node.kind # "grace" => EndsBeforeNext(tr, k)

(* a press of one of the two toggle keys, and a press of a note key *)
ToggleEvent(e) == e.event_type = "key_press" /\ e.key \in {"+", "-"}

NoteKeyEvent(e) == e.event_type = "key_press" /\ e.key \in NoteKeys

(* C30: in the encoded playback data an accidental toggle precedes the     *)
(* key it applies to: when a token's events hold a toggle and, after it    *)
(* and at the same time, the press of a note key, the toggle's token and   *)
(* the key's token stand in one simultaneous group, the toggle first; and  *)
(* in every group all toggle tokens stand before all note key tokens,      *)
(* whatever the voices contributed to the group.                           *)
C30_ToggleBeforeKey ==
    PlaybackEncoded =>
        LET pd == playback.playback_data
        IN  /\ \A tr \in 1..Len(track_starts) :
                  \A k \in 1..Len(track_starts[tr]) :
                      \A i, j \in 1..Len(track_starts[tr][k].events) :
                          LET ei == track_starts[tr][k].events[i]
                              ej == track_starts[tr][k].events[j]
                          IN  (i < j /\ ToggleEvent(ei) /\ NoteKeyEvent(ej)
                                 /\ ei.time = ej.time) =>
                                  \E p, q \in 1..Len(pd) :
                                      /\ p < q
                                      /\ TokenOf(pd, p, ei)
                                      /\ TokenOf(pd, q, ej)
                                      /\ NoDelayBetween(pd, p, q)
            /\ \A p, q \in 1..Len(pd) :
                  (/\ pd[p].kind = "key" /\ pd[p].key \in {"+", "-"}
                   /\ pd[q].kind = "key" /\ pd[q].key \in NoteKeys
                   /\ NoDelayBetween(pd, p, q)) => p < q

(* two voices start with a sharp note on the same key at the same          *)
(* instant: the group holds one '+', then the key                          *)
C30_Witness ==
    /\ pc = "Done"
    /\ Len(track_starts) = 2
    /\ \A tr \in 1..2 :
          /\ track_starts[tr] # <<>>
          /\ track_starts[tr][1].node.kind = "note"
          /\ \E i \in 1..Len(track_starts[tr][1].events) :
                ToggleEvent(track_starts[tr][1].events[i])
    /\ Len(result[1].playback_data) >= 3
    /\ result[1].playback_data[1] = KeyItem("+")
    /\ result[1].playback_data[2] = KeyItem("Q")
    /\ result[1].playback_data[3].kind = "delay"

====
